---- MODULE Spec2Model ----
(***************************************************************************)
(* A model of the lexer (Code/Lexer.cpp, with the declarations of its     *)
(* header) and of the recursive-descent parser built on it.  Characters    *)
(* are ASCII codes, token kinds are the values of enum TokenType, so that  *)
(* a single-character token is tagged with its own character code.         *)
(***************************************************************************)
EXTENDS Integers, Sequences, FiniteSets, TLC

VARIABLES lexer, ret, panic, parser, result, pc, words, arena

vars == <<lexer, ret, panic, parser, result, pc, words, arena>>

(***************************************************************************)
(* Bounds of the model.                                                    *)
(***************************************************************************)
MaxInputLen == 3
MaxPeek == 2
MaxFollowing == 2
MaxTopLevel == 2
MaxWords == 3
MaxElseIf == 2
MaxCapacity == 8
MaxSuffix == 2

\* EatToken is unbounded in the code; the model stops it here.
MaxCursor == MaxPeek

(***************************************************************************)
(* Characters.                                                             *)
(***************************************************************************)
EOF_CHAR == -1
TAB == 9
LF == 10
CR == 13
SPACE == 32

Ord(c) ==
    CASE c = "!" -> 33  [] c = "%" -> 37  [] c = "(" -> 40  [] c = ")" -> 41
      [] c = "*" -> 42  [] c = "+" -> 43  [] c = "," -> 44  [] c = "-" -> 45
      [] c = "/" -> 47  [] c = "0" -> 48  [] c = "1" -> 49  [] c = "2" -> 50
      [] c = "3" -> 51  [] c = "9" -> 57  [] c = ":" -> 58  [] c = ";" -> 59
      [] c = "<" -> 60  [] c = "=" -> 61  [] c = ">" -> 62  [] c = "@" -> 64
      [] c = "A" -> 65  [] c = "Z" -> 90  [] c = "[" -> 91  [] c = "]" -> 93
      [] c = "_" -> 95  [] c = "a" -> 97  [] c = "b" -> 98  [] c = "c" -> 99
      [] c = "d" -> 100 [] c = "e" -> 101 [] c = "f" -> 102 [] c = "g" -> 103
      [] c = "h" -> 104 [] c = "k" -> 107 [] c = "v" -> 118
      [] c = "i" -> 105 [] c = "l" -> 108 [] c = "m" -> 109 [] c = "n" -> 110
      [] c = "o" -> 111 [] c = "p" -> 112 [] c = "r" -> 114 [] c = "s" -> 115
      [] c = "t" -> 116 [] c = "u" -> 117 [] c = "w" -> 119 [] c = "y" -> 121
      [] c = "z" -> 122 [] c = "{" -> 123 [] c = "}" -> 125

\* The text of a string literal, one character code per element.
Str(s) == [i \in DOMAIN s |-> Ord(s[i])]

\* The value v under a name in F: the result of a call, or a local, computed
\* once, also where TLC evaluates ENABLED and keeps no argument it computed.
Bind(v, F(_)) == CHOOSE r \in {F(x) : x \in {v}} : TRUE

IsDigit(ch) == ch >= Ord("0") /\ ch <= Ord("9")
IsAlpha(ch) == (ch >= Ord("a") /\ ch <= Ord("z")) \/ (ch >= Ord("A") /\ ch <= Ord("Z"))
IsAlnum(ch) == IsDigit(ch) \/ IsAlpha(ch)

(***************************************************************************)
(* enum class TokenType: the named kinds follow the 255 character codes.   *)
(***************************************************************************)
TokenType ==
    [identifier |-> 256, integer |-> 257,
     plus_assign |-> 258, minus_assign |-> 259, multiply_assign |-> 260,
     divide_assign |-> 261, modulo_assign |-> 262,
     equals |-> 263, not_equals |-> 264,
     less_equals |-> 265, greater_equals |-> 266,
     return_arrow |-> 267,
     keyword_if |-> 268, keyword_else |-> 269, keyword_while |-> 270,
     keyword_return |-> 271, keyword_proc |-> 272, keyword_true |-> 273,
     keyword_false |-> 274, keyword_cast |-> 275, keyword_transmute |-> 276,
     keyword_type |-> 277, keyword_const |-> 278, keyword_struct |-> 279,
     invalid |-> 280]

\* Lexer::keywords
keywords ==
    { [word |-> Str(<<"i", "f">>),                     type |-> TokenType.keyword_if],
      [word |-> Str(<<"e", "l", "s", "e">>),           type |-> TokenType.keyword_else],
      [word |-> Str(<<"w", "h", "i", "l", "e">>),      type |-> TokenType.keyword_while],
      [word |-> Str(<<"r", "e", "t", "u", "r", "n">>), type |-> TokenType.keyword_return],
      [word |-> Str(<<"p", "r", "o", "c">>),           type |-> TokenType.keyword_proc],
      [word |-> Str(<<"t", "r", "u", "e">>),           type |-> TokenType.keyword_true],
      [word |-> Str(<<"f", "a", "l", "s", "e">>),      type |-> TokenType.keyword_false],
      [word |-> Str(<<"c", "a", "s", "t">>),           type |-> TokenType.keyword_cast],
      [word |-> Str(<<"t", "r", "a", "n", "s", "m", "u", "t", "e">>),
                                                       type |-> TokenType.keyword_transmute],
      [word |-> Str(<<"t", "y", "p", "e">>),           type |-> TokenType.keyword_type],
      [word |-> Str(<<"c", "o", "n", "s", "t">>),      type |-> TokenType.keyword_const],
      [word |-> Str(<<"s", "t", "r", "u", "c", "t">>), type |-> TokenType.keyword_struct] }

\* CheckIdentifierForKeyword that takes a word beginning with a keyword for it.
CheckIdentifierForKeywordByPrefix(identifier) ==
    IF \E k \in keywords : Len(k.word) <= Len(identifier)
                               /\ k.word = SubSeq(identifier, 1, Len(k.word))
    THEN (CHOOSE k \in keywords : Len(k.word) <= Len(identifier)
                                     /\ k.word = SubSeq(identifier, 1, Len(k.word))).type
    ELSE TokenType.identifier

CheckIdentifierForKeyword(identifier) ==
    IF \E k \in keywords : k.word = identifier
    THEN (CHOOSE k \in keywords : k.word = identifier).type
    ELSE TokenType.identifier

\* TokenTypeToString: the text of a kind; the empty string_view for a
\* character code.
TokenTypeToString(type) ==
    IF type > 0 /\ type < 256 THEN <<>>
    ELSE CASE type = TokenType.plus_assign -> Str(<<"+", "=">>)
           [] type = TokenType.minus_assign -> Str(<<"-", "=">>)
           [] type = TokenType.multiply_assign -> Str(<<"*", "=">>)
           [] type = TokenType.divide_assign -> Str(<<"/", "=">>)
           [] type = TokenType.modulo_assign -> Str(<<"%", "=">>)
           [] type = TokenType.return_arrow -> Str(<<"-", ">">>)
           [] type = TokenType.less_equals -> Str(<<"<", "=">>)
           [] type = TokenType.identifier ->
                 Str(<<"i", "d", "e", "n", "t", "i", "f", "i", "e", "r">>)
           [] type = TokenType.integer -> Str(<<"i", "n", "t", "e", "g", "e", "r">>)
           [] type = TokenType.invalid -> Str(<<"i", "n", "v", "a", "l", "i", "d">>)
           [] type = TokenType.keyword_if -> Str(<<"i", "f">>)
           [] type = TokenType.keyword_else -> Str(<<"e", "l", "s", "e">>)
           [] type = TokenType.keyword_while -> Str(<<"w", "h", "i", "l", "e">>)
           [] type = TokenType.keyword_return -> Str(<<"r", "e", "t", "u", "r", "n">>)
           [] type = TokenType.keyword_proc -> Str(<<"p", "r", "o", "c">>)
           [] type = TokenType.keyword_const -> Str(<<"c", "o", "n", "s", "t">>)
           [] type = TokenType.keyword_struct -> Str(<<"s", "t", "r", "u", "c", "t">>)
           [] OTHER -> Str(<<"u", "n", "k", "n", "o", "w", "n">>)

(***************************************************************************)
(* struct FileLocation, struct Token, class Lexer.                         *)
(***************************************************************************)
FileLocation(line, column) == [line |-> line, column |-> column]

\* A default-constructed Token: kind invalid, empty payload.
Token ==
    [type |-> TokenType.invalid, start |-> FileLocation(0, 0), end |-> FileLocation(0, 0),
     identifier |-> <<>>, integer_value |-> 0]

\* Lexer::Lexer(input)
Lexer(input) ==
    [input_ |-> input, input_cursor_ |-> 0, tokens_ |-> <<>>, tokens_cursor_ |-> 0,
     current_location_ |-> FileLocation(1, 1)]

PeekNextChar(l) ==
    IF l.input_cursor_ >= Len(l.input_) THEN EOF_CHAR ELSE l.input_[l.input_cursor_ + 1]

PeekChar(l, peek) ==
    IF peek < 0 THEN EOF_CHAR
    ELSE IF peek = 0 THEN PeekNextChar(l)
    ELSE LET cursor == l.input_cursor_ + peek
         IN  IF cursor >= Len(l.input_) THEN EOF_CHAR ELSE l.input_[cursor + 1]

\* EatChar that leaves the column as it is at a line break.
EatCharKeepingColumn(l) ==
    LET ch == PeekNextChar(l)
    IN  IF ch = LF \/ (ch = CR /\ PeekChar(l, 1) = LF)
        THEN [l EXCEPT !.current_location_.line = @ + 1,
                       !.input_cursor_ = IF ch = CR THEN @ + 2 ELSE @ + 1]
        ELSE [l EXCEPT !.current_location_.column = @ + 1,
                       !.input_cursor_ = @ + 1]

EatChar(l) ==
    LET ch == PeekNextChar(l)
    IN  IF ch = LF \/ (ch = CR /\ PeekChar(l, 1) = LF)
        THEN [l EXCEPT !.current_location_ = FileLocation(@.line + 1, 1),
                       !.input_cursor_ = IF ch = CR THEN @ + 2 ELSE @ + 1]
        ELSE [l EXCEPT !.current_location_.column = @ + 1,
                       !.input_cursor_ = @ + 1]

RECURSIVE SkipWhitespaces(_)
SkipWhitespaces(l) ==
    LET ch == PeekNextChar(l)
    IN  IF ch = SPACE \/ ch = TAB \/ ch = LF \/ (ch = CR /\ PeekChar(l, 1) = LF)
        THEN Bind(EatChar(l), LAMBDA l1 : SkipWhitespaces(l1))
        ELSE l

\* The loop of ParseInteger: result is the accumulator so far.
RECURSIVE ParseIntegerLoop(_, _)
ParseIntegerLoop(l, result_) ==
    LET ch == PeekNextChar(l)
    IN  IF IsDigit(ch)
        THEN Bind([l |-> EatChar(l), result_ |-> result_ * 10 + (ch - Ord("0"))],
                  LAMBDA r : ParseIntegerLoop(r.l, r.result_))
        ELSE [l |-> l, value |-> result_]

ParseInteger(l) == ParseIntegerLoop(l, 0)

\* The loop of ParseIdentifier: count characters taken so far.
RECURSIVE ParseIdentifierLoop(_, _)
ParseIdentifierLoop(l, count) ==
    LET ch == PeekNextChar(l)
    IN  IF IsAlnum(ch) \/ ch = Ord("_")
        THEN Bind([l |-> EatChar(l), count |-> count + 1],
                  LAMBDA r : ParseIdentifierLoop(r.l, r.count))
        ELSE [l |-> l, count |-> count]

ParseIdentifier(l) ==
    Bind(ParseIdentifierLoop(l, 0), LAMBDA r :
        [l |-> r.l, value |-> SubSeq(l.input_, l.input_cursor_ + 1, l.input_cursor_ + r.count)])

\* CompoundType that knows '==' alone.
CompoundTypeEqualsOnly(ch, next) ==
    IF ch = Ord("=") /\ next = Ord("=") THEN TokenType.equals ELSE 0

\* The compound kind of first character ch followed by next, 0 when there is none.
CompoundType(ch, next) ==
    CASE ch = Ord("=") /\ next = Ord("=") -> TokenType.equals
      [] ch = Ord("!") /\ next = Ord("=") -> TokenType.not_equals
      [] ch = Ord("+") /\ next = Ord("=") -> TokenType.plus_assign
      [] ch = Ord("-") /\ next = Ord("=") -> TokenType.minus_assign
      [] ch = Ord("-") /\ next = Ord(">") -> TokenType.return_arrow
      [] ch = Ord("*") /\ next = Ord("=") -> TokenType.multiply_assign
      [] ch = Ord("/") /\ next = Ord("=") -> TokenType.divide_assign
      [] ch = Ord("%") /\ next = Ord("=") -> TokenType.modulo_assign
      [] ch = Ord("<") /\ next = Ord("=") -> TokenType.less_equals
      [] ch = Ord(">") /\ next = Ord("=") -> TokenType.greater_equals
      [] OTHER -> 0

ExtensibleChars ==
    {Ord("="), Ord("!"), Ord("+"), Ord("-"), Ord("*"), Ord("/"), Ord("%"), Ord("<"), Ord(">")}

SingleChars ==
    {Ord("{"), Ord("}"), Ord("("), Ord(")"), Ord("["), Ord("]"), Ord(";"), Ord(":"), Ord(",")}

\* The digit case of Tokenize.
TokenizeInteger(l) ==
    Bind(ParseInteger(l), LAMBDA r :
        [l |-> r.l,
         token |-> [Token EXCEPT !.integer_value = r.value, !.type = TokenType.integer]])

\* The letter and '_' case of Tokenize.
TokenizeIdentifier(l) ==
    Bind(ParseIdentifier(l), LAMBDA r :
        [l |-> r.l,
         token |-> [Token EXCEPT !.identifier = r.value,
                                 !.type = CheckIdentifierForKeyword(r.value)]])

\* TokenizeSwitch with a default case that takes the character as the kind.
TokenizeSwitchCharAsKind(l, ch) ==
    IF IsDigit(ch) THEN TokenizeInteger(l)
    ELSE IF IsAlpha(ch) \/ ch = Ord("_") THEN TokenizeIdentifier(l)
    ELSE [l |-> EatChar(l), token |-> [Token EXCEPT !.type = ch]]

\* TokenizeSwitch with a default case that eats nothing.
TokenizeSwitchDefaultKeeps(l, ch) ==
    IF IsDigit(ch) THEN TokenizeInteger(l)
    ELSE IF IsAlpha(ch) \/ ch = Ord("_") THEN TokenizeIdentifier(l)
    ELSE IF ch = Ord("=") THEN [l |-> EatChar(l), token |-> [Token EXCEPT !.type = ch]]
    ELSE [l |-> l, token |-> Token]

\* The switch of Tokenize on ch: the lexer after the case, and the fields it sets.
TokenizeSwitch(l, ch) ==
    CASE ch \in ExtensibleChars ->
            Bind(CompoundType(ch, PeekChar(l, 1)), LAMBDA compound :
                IF compound # 0
                THEN [l |-> EatChar(EatChar(l)), token |-> [Token EXCEPT !.type = compound]]
                ELSE [l |-> EatChar(l), token |-> [Token EXCEPT !.type = ch]])
      [] ch \in SingleChars ->
            [l |-> EatChar(l), token |-> [Token EXCEPT !.type = ch]]
      [] IsDigit(ch) -> TokenizeInteger(l)
      [] IsAlpha(ch) \/ ch = Ord("_") -> TokenizeIdentifier(l)
      [] OTHER ->
            [l |-> EatChar(l), token |-> Token]

Tokenize(l) ==
    Bind(SkipWhitespaces(l), LAMBDA l0 :
    Bind(TokenizeSwitch(l0, PeekNextChar(l0)), LAMBDA r :
        [r.l EXCEPT !.tokens_ =
            Append(@, [r.token EXCEPT
                         !.start = l0.current_location_,
                         !.end = FileLocation(r.l.current_location_.line,
                                              r.l.current_location_.column - 1)])]))

\* A returned const Token& is the index it refers to and the token there.
TokenRef(l, index) == [index |-> index, token |-> l.tokens_[index + 1]]

RECURSIVE PeekNextToken(_)
PeekNextToken(l) ==
    IF l.tokens_cursor_ < Len(l.tokens_)
    THEN [l |-> l, ref |-> TokenRef(l, l.tokens_cursor_)]
    ELSE Bind(Tokenize(l), LAMBDA l1 : PeekNextToken(l1))

\* PeekToken that moves the cursor past the token it returns.
RECURSIVE PeekTokenConsuming(_, _)
PeekTokenConsuming(l, peek) ==
    IF l.tokens_cursor_ + peek < Len(l.tokens_)
    THEN [l |-> [l EXCEPT !.tokens_cursor_ = @ + 1], ref |-> TokenRef(l, l.tokens_cursor_ + peek)]
    ELSE PeekTokenConsuming(Tokenize(l), peek)

\* PeekToken that ignores its offset.
PeekTokenIgnoringOffset(l, peek) == PeekNextToken(l)

RECURSIVE PeekToken(_, _)
PeekToken(l, peek) ==
    IF l.tokens_cursor_ + peek < Len(l.tokens_)
    THEN [l |-> l, ref |-> TokenRef(l, l.tokens_cursor_ + peek)]
    ELSE Bind(Tokenize(l), LAMBDA l1 : PeekToken(l1, peek))

\* u64 arithmetic wraps at 2^64.  The model's integers end below that, so the
\* model wraps at 2^30, which like 2^64 lies above every index a buffer of
\* the model reaches.
U64 == 2^30

\* PreviousToken: how the call ends (it returns, vector::at throws
\* std::out_of_range, or Panic) and the index it reads.  The test of
\* tokens_cursor_ - 1 >= 0 is made on the u64 difference.
PreviousToken(l) ==
    Bind((l.tokens_cursor_ - 1) % U64, LAMBDA index :
        IF index >= 0
        THEN IF index < Len(l.tokens_)
             THEN [outcome |-> "returned", index |-> index]
             ELSE [outcome |-> "std::out_of_range", index |-> index]
        ELSE [outcome |-> "No previous token", index |-> index])

\* EatToken that skips a token.
EatTokenTwice(l) == [l EXCEPT !.tokens_cursor_ = @ + 2]

EatToken(l) == [l EXCEPT !.tokens_cursor_ = @ + 1]

\* UneatToken that also forgets the last buffered token.
UneatTokenForgetting(l) ==
    [l EXCEPT !.tokens_cursor_ = @ - 1,
              !.tokens_ = SubSeq(@, 1, Len(@) - 1)]

\* UneatToken on a lexer whose cursor is above 0; at 0 the call panics.
UneatToken(l) == [l EXCEPT !.tokens_cursor_ = @ - 1]

(***************************************************************************)
(* The syntax tree.  A node is a record carrying its NodeType in field     *)
(* type; a child pointer is the child's record, or nullptr.                *)
(***************************************************************************)
NodeType ==
    [invalid |-> 0,
     declaration_variable |-> 1, declaration_const |-> 2,
     declaration_procedure |-> 3, declaration_type |-> 4,
     statement_if |-> 5, statement_while |-> 6, statement_assingment |-> 7,
     statement_block |-> 8, statement_return |-> 9, statement_expression |-> 10,
     expression_integer_literal |-> 11, expression_bool_literal |-> 12,
     expression_identifier |-> 13, expression_unary_operator |-> 14,
     expression_binary_operator |-> 15, expression_cast |-> 16,
     type_identifier |-> 17, type_pointer |-> 18, type_struct |-> 19]

Precedence ==
    [lowest |-> 0, equals |-> 1, comparison |-> 2, plus |-> 3, multiply |-> 4, prefix |-> 5]

nullptr == [type |-> -1]

\* std::optional<T*>: disengaged, or engaged holding a pointer.
nullopt == [has_value |-> FALSE, value |-> nullptr]
Optional(pointer) == [has_value |-> TRUE, value |-> pointer]

\* The nodes as their constructors and member initializers leave them.
InvalidNode == [type |-> NodeType.invalid]
TypeIdentifier == [type |-> NodeType.type_identifier, identifier |-> Token]
TypePointer == [type |-> NodeType.type_pointer, points_to |-> nullptr]
TypeStruct == [type |-> NodeType.type_struct, members |-> <<>>]
StructMember == [identifier |-> Token, type |-> nullptr]
VariableDeclaration ==
    [type |-> NodeType.declaration_variable, identifier |-> Token,
     variable_type |-> nullptr, value |-> nullopt]
ConstDeclaration ==
    [type |-> NodeType.declaration_const, identifier |-> Token,
     variable_type |-> nullptr, value |-> nullptr]
TypeDeclaration ==
    [type |-> NodeType.declaration_type, identifier |-> Token, declared_type |-> nullptr]
ProcedureParameter == [identifier |-> Token, type |-> nullptr]
ProcedureDeclaration ==
    [type |-> NodeType.declaration_procedure, identifier |-> Token, parameters |-> <<>>,
     return_type |-> nullptr, body |-> nullptr]
IfStatement ==
    [type |-> NodeType.statement_if, condition |-> nullptr, true_branch |-> nullptr,
     false_branch |-> Optional(nullptr)]
WhileStatement ==
    [type |-> NodeType.statement_while, condition |-> nullptr, body |-> nullptr]
BlockStatement == [type |-> NodeType.statement_block, body |-> <<>>]
AssignmentStatement ==
    [type |-> NodeType.statement_assingment, identifier |-> Token, value |-> nullptr]
ReturnStatement == [type |-> NodeType.statement_return, value |-> nullptr]
ExpressionStatement == [type |-> NodeType.statement_expression, expression |-> nullptr]
IntegerLiteral == [type |-> NodeType.expression_integer_literal, value |-> Token]
IdentifierExpression == [type |-> NodeType.expression_identifier, identifier |-> Token]
UnaryOperator ==
    [type |-> NodeType.expression_unary_operator, op |-> TokenType.invalid, right |-> nullptr]
BinaryOperator ==
    [type |-> NodeType.expression_binary_operator, op |-> TokenType.invalid,
     left |-> nullptr, right |-> nullptr]
BoolLiteral == [type |-> NodeType.expression_bool_literal, value |-> FALSE]

(***************************************************************************)
(* class Parser: the lexer it owns, the error counter and the log.  Every  *)
(* parsing function maps the parser before the call to the parser after    *)
(* it and the node (or token) it returns.                                  *)
(***************************************************************************)
\* A parser whose error count starts at 1.
ParserCountingFromOne(input) ==
    [lexer_ |-> Lexer(input), error_count_ |-> 1, log_ |-> <<>>, arena_ |-> <<>>]

\* Of the arena the parser keeps the arrays pushed so far: arena_ holds the
\* element count of every PushArray call, in the order of the calls.
Parser(input) ==
    [lexer_ |-> Lexer(input), error_count_ |-> 0, log_ |-> <<>>, arena_ |-> <<>>]

\* arena_->PushArray<Item>(count)
ArenaPushArray(p, count) == [p EXCEPT !.arena_ = Append(@, count)]

IsDeclaration(node) ==
    node.type >= NodeType.declaration_variable /\ node.type <= NodeType.declaration_type

\* One line written to log_: the position of token, the format string and its arguments.
LogError(p, token, fmt, args) ==
    [p EXCEPT !.log_ = Append(@, [line |-> token.start.line, column |-> token.start.column,
                                  fmt |-> fmt, args |-> args])]

\* lexer_.PeekNextToken() called by the parser.
Peek(p) ==
    Bind(PeekNextToken(p.lexer_), LAMBDA r :
        [p |-> [p EXCEPT !.lexer_ = r.l], token |-> r.ref.token])

\* lexer_.PeekToken(peek) called by the parser.
PeekAhead(p, peek) ==
    Bind(PeekToken(p.lexer_, peek), LAMBDA r :
        [p |-> [p EXCEPT !.lexer_ = r.l], token |-> r.ref.token])

\* An EatToken with a second one behind it that no peek precedes.
EatUnpeeked(p) == [p EXCEPT !.lexer_ = EatToken(EatToken(@))]

Eat(p) == [p EXCEPT !.lexer_ = EatToken(@)]

ExpectToken(p, type) ==
    Bind(Peek(p), LAMBDA k :
        IF k.token.type # type
        THEN [p |-> [LogError(Eat(k.p), k.token, "Expected {}, got {}.",
                              <<type, k.token.type>>)
                        EXCEPT !.error_count_ = @ + 1],
              token |-> k.token]
        ELSE [p |-> Eat(k.p), token |-> k.token])

NextTokenIs(p, type) ==
    Bind(Peek(p), LAMBDA k : [p |-> k.p, is |-> k.token.type = type])

\* TokenTypeToPrecedense with the additive and multiplicative levels exchanged.
TokenTypeToPrecedenseAdditiveAbove(type) ==
    CASE type \in {TokenType.equals, TokenType.not_equals} -> Precedence.equals
      [] type \in {Ord("<"), Ord(">"), TokenType.less_equals, TokenType.greater_equals} ->
            Precedence.comparison
      [] type \in {Ord("+"), Ord("-")} -> Precedence.multiply
      [] type \in {Ord("*"), Ord("/"), Ord("%")} -> Precedence.plus
      [] OTHER -> Precedence.lowest

\* Returns precedence of a binary operator.
TokenTypeToPrecedense(type) ==
    CASE type \in {TokenType.equals, TokenType.not_equals} -> Precedence.equals
      [] type \in {Ord("<"), Ord(">"), TokenType.less_equals, TokenType.greater_equals} ->
            Precedence.comparison
      [] type \in {Ord("+"), Ord("-")} -> Precedence.plus
      [] type \in {Ord("*"), Ord("/"), Ord("%")} -> Precedence.multiply
      [] OTHER -> Precedence.lowest

RECURSIVE ParseStatement(_)
RECURSIVE ParseType(_)
RECURSIVE ParseStructMembers(_, _)
RECURSIVE ParseExpression(_, _)
RECURSIVE ParseExpressionLoop(_, _, _)
RECURSIVE ParseBlockStatement(_)
RECURSIVE ParseBlockLoop(_, _)
RECURSIVE ParseProcedureParameters(_, _, _)
RECURSIVE ParseStatementSwitch(_, _, _)

\* ParseUnaryExpression that parses the operand of a prefix operator at the
\* lowest precedence.
ParseUnaryExpressionLoosePrefix(p) ==
    Bind(Peek(p), LAMBDA k :
    Bind(k.token, LAMBDA token :
    Bind(Eat(k.p), LAMBDA p1 :
        CASE token.type = TokenType.identifier ->
                [p |-> p1, node |-> [IdentifierExpression EXCEPT !.identifier = token]]
          [] token.type = TokenType.integer ->
                [p |-> p1, node |-> [IntegerLiteral EXCEPT !.value = token]]
          [] token.type \in {TokenType.keyword_true, TokenType.keyword_false} ->
                [p |-> p1,
                 node |-> [BoolLiteral EXCEPT !.value = (token.type = TokenType.keyword_true)]]
          [] token.type \in {Ord("-"), Ord("!")} ->
                Bind(ParseExpression(p1, Precedence.lowest), LAMBDA r :
                    [p |-> r.p,
                     node |-> [UnaryOperator EXCEPT !.op = token.type, !.right = r.node]])
          [] OTHER ->
                [p |-> LogError(p1, token, "Token \"{}\" can not be parsed as a unary expression.",
                                <<token.type>>),
                 node |-> InvalidNode])))

ParseUnaryExpression(p) ==
    Bind(Peek(p), LAMBDA k :
    Bind(k.token, LAMBDA token :
    Bind(Eat(k.p), LAMBDA p1 :
        CASE token.type = TokenType.identifier ->
                [p |-> p1, node |-> [IdentifierExpression EXCEPT !.identifier = token]]
          [] token.type = TokenType.integer ->
                [p |-> p1, node |-> [IntegerLiteral EXCEPT !.value = token]]
          [] token.type \in {TokenType.keyword_true, TokenType.keyword_false} ->
                [p |-> p1,
                 node |-> [BoolLiteral EXCEPT !.value = (token.type = TokenType.keyword_true)]]
          [] token.type \in {Ord("-"), Ord("!")} ->
                Bind(ParseExpression(p1, Precedence.prefix), LAMBDA r :
                    [p |-> r.p,
                     node |-> [UnaryOperator EXCEPT !.op = token.type, !.right = r.node]])
          [] OTHER ->
                [p |-> LogError(p1, token, "Token \"{}\" can not be parsed as a unary expression.",
                                <<token.type>>),
                 node |-> InvalidNode])))

ParseBinaryExpression(p, left) ==
    Bind(Peek(p), LAMBDA k :
    Bind(ParseExpression(Eat(k.p), TokenTypeToPrecedense(k.token.type)), LAMBDA r :
        [p |-> r.p,
         node |-> [BinaryOperator EXCEPT !.op = k.token.type, !.left = left,
                                         !.right = r.node]]))

\* The while loop of ParseExpression.
ParseExpressionLoop(p, precedence, left) ==
    Bind(Peek(p), LAMBDA k :
        IF precedence < TokenTypeToPrecedense(k.token.type)
        THEN Bind(ParseBinaryExpression(k.p, left), LAMBDA b :
                ParseExpressionLoop(b.p, precedence, b.node))
        ELSE [p |-> k.p, node |-> left])

ParseExpression(p, precedence) ==
    Bind(ParseUnaryExpression(p), LAMBDA u : ParseExpressionLoop(u.p, precedence, u.node))

\* The condition of the loops over members, parameters and statements: the
\* next token is neither closing nor the end-of-input sentinel.
LoopGoesOn(p, closing) ==
    Bind(NextTokenIs(p, closing), LAMBDA close :
        IF close.is
        THEN [p |-> close.p, is |-> FALSE]
        ELSE Bind(NextTokenIs(close.p, TokenType.invalid), LAMBDA end :
                [p |-> end.p, is |-> ~end.is]))

\* The member loop of ParseType's struct case: temp holds the members so far.
ParseStructMembers(p, temp) ==
    Bind(LoopGoesOn(p, Ord("}")), LAMBDA c :
        IF ~c.is
        THEN [p |-> c.p, temp |-> temp]
        ELSE Bind(ExpectToken(c.p, TokenType.identifier), LAMBDA e1 :
             Bind(ExpectToken(e1.p, Ord(":")), LAMBDA e2 :
             Bind(ParseType(e2.p), LAMBDA t :
             Bind(ExpectToken(t.p, Ord(";")), LAMBDA e3 :
                ParseStructMembers(e3.p,
                    Append(temp, [StructMember EXCEPT !.identifier = e1.token,
                                                      !.type = t.node])))))))

ParseType(p) ==
    Bind(Peek(p), LAMBDA k :
    Bind(k.token, LAMBDA token :
    Bind(Eat(k.p), LAMBDA p1 :
        CASE token.type = TokenType.identifier ->
                [p |-> p1, node |-> [TypeIdentifier EXCEPT !.identifier = token]]
          [] token.type = Ord("*") ->
                Bind(ParseType(p1), LAMBDA r :
                    [p |-> r.p, node |-> [TypePointer EXCEPT !.points_to = r.node]])
          [] token.type = TokenType.keyword_struct ->
                Bind(ExpectToken(p1, Ord("{")), LAMBDA e1 :
                Bind(ParseStructMembers(e1.p, <<>>), LAMBDA m :
                Bind(ExpectToken(m.p, Ord("}")), LAMBDA e2 :
                    [p |-> ArenaPushArray(e2.p, Len(m.temp)),
                     node |-> [TypeStruct EXCEPT !.members = m.temp]])))
          [] OTHER ->
                [p |-> LogError(p1, token, "Token \"{}\" can not be parsed as a type.",
                                <<token.type>>),
                 node |-> InvalidNode])))

ParseConstantDeclaration(p) ==
    Bind(ExpectToken(p, TokenType.keyword_const), LAMBDA e1 :
    Bind(ExpectToken(e1.p, TokenType.identifier), LAMBDA e2 :
    Bind(ExpectToken(e2.p, Ord(":")), LAMBDA e3 :
    Bind(ParseType(e3.p), LAMBDA t :
    Bind(ExpectToken(t.p, Ord("=")), LAMBDA e4 :
    Bind(ParseExpression(e4.p, Precedence.lowest), LAMBDA v :
    Bind(ExpectToken(v.p, Ord(";")), LAMBDA e5 :
        [p |-> e5.p,
         node |-> [ConstDeclaration EXCEPT !.identifier = e2.token,
                                           !.variable_type = t.node,
                                           !.value = v.node]])))))))

\* ParseVariableDeclaration that demands the initializer, as a constant does.
ParseVariableDeclarationRequiringValue(p) ==
    Bind(ExpectToken(p, TokenType.identifier), LAMBDA e1 :
    Bind(ExpectToken(e1.p, Ord(":")), LAMBDA e2 :
    Bind(ParseType(e2.p), LAMBDA t :
    Bind(ExpectToken(t.p, Ord("=")), LAMBDA e3 :
    Bind(ParseExpression(e3.p, Precedence.lowest), LAMBDA v :
        [p |-> ExpectToken(v.p, Ord(";")).p,
         node |-> [VariableDeclaration EXCEPT !.identifier = e1.token,
                                              !.variable_type = t.node,
                                              !.value = Optional(v.node)]])))))

ParseVariableDeclaration(p) ==
    Bind(ExpectToken(p, TokenType.identifier), LAMBDA e1 :
    Bind(ExpectToken(e1.p, Ord(":")), LAMBDA e2 :
    Bind(ParseType(e2.p), LAMBDA t :
    Bind([VariableDeclaration EXCEPT !.identifier = e1.token, !.variable_type = t.node],
         LAMBDA statement :
    Bind(NextTokenIs(t.p, Ord("=")), LAMBDA n :
        IF n.is
        THEN Bind(ParseExpression(Eat(n.p), Precedence.lowest), LAMBDA v :
                [p |-> ExpectToken(v.p, Ord(";")).p,
                 node |-> [statement EXCEPT !.value = Optional(v.node)]])
        ELSE [p |-> ExpectToken(n.p, Ord(";")).p, node |-> statement])))))

ParseTypeDeclaration(p) ==
    Bind(ExpectToken(p, TokenType.keyword_type), LAMBDA e1 :
    Bind(ExpectToken(e1.p, TokenType.identifier), LAMBDA e2 :
    Bind(ExpectToken(e2.p, Ord("=")), LAMBDA e3 :
    Bind(ParseType(e3.p), LAMBDA t :
    Bind(ExpectToken(t.p, Ord(";")), LAMBDA e4 :
        [p |-> e4.p,
         node |-> [TypeDeclaration EXCEPT !.identifier = e2.token,
                                          !.declared_type = t.node]])))))

\* The parameter loop of ParseProcedureDeclaration.
ParseProcedureParameters(p, temp, first_parameter) ==
    Bind(LoopGoesOn(p, Ord(")")), LAMBDA c :
        IF ~c.is
        THEN [p |-> c.p, temp |-> temp]
        ELSE Bind(IF ~first_parameter THEN ExpectToken(c.p, Ord(",")).p ELSE c.p, LAMBDA p0 :
             Bind(ExpectToken(p0, TokenType.identifier), LAMBDA e1 :
             Bind(ExpectToken(e1.p, Ord(":")), LAMBDA e2 :
             Bind(ParseType(e2.p), LAMBDA t :
                ParseProcedureParameters(t.p,
                    Append(temp, [ProcedureParameter EXCEPT !.identifier = e1.token,
                                                            !.type = t.node]),
                    FALSE))))))

ParseProcedureDeclaration(p) ==
    Bind(ExpectToken(p, TokenType.keyword_proc), LAMBDA e1 :
    Bind(ExpectToken(e1.p, TokenType.identifier), LAMBDA e2 :
    Bind(ExpectToken(e2.p, Ord("(")), LAMBDA e3 :
    Bind(ParseProcedureParameters(e3.p, <<>>, TRUE), LAMBDA m :
    Bind(ExpectToken(m.p, Ord(")")), LAMBDA e4 :
    Bind(ExpectToken(ArenaPushArray(e4.p, Len(m.temp)), TokenType.return_arrow), LAMBDA e5 :
    Bind(ParseType(e5.p), LAMBDA t :
    Bind(ParseBlockStatement(t.p), LAMBDA b :
        [p |-> b.p,
         node |-> [ProcedureDeclaration EXCEPT !.identifier = e2.token,
                                               !.parameters = m.temp,
                                               !.return_type = t.node,
                                               !.body = b.node]]))))))))

ParseExpressionStatement(p) ==
    Bind(ParseExpression(p, Precedence.lowest), LAMBDA e :
    Bind(ExpectToken(e.p, Ord(";")), LAMBDA e1 :
        [p |-> e1.p, node |-> [ExpressionStatement EXCEPT !.expression = e.node]]))

ParseIfStatement(p) ==
    Bind(ExpectToken(p, TokenType.keyword_if), LAMBDA e1 :
    Bind(ParseExpression(e1.p, Precedence.lowest), LAMBDA c :
    Bind(ParseStatement(c.p), LAMBDA t :
    Bind([IfStatement EXCEPT !.condition = c.node, !.true_branch = t.node],
         LAMBDA statement :
    Bind(NextTokenIs(t.p, TokenType.keyword_else), LAMBDA n :
        IF ~n.is
        THEN [p |-> n.p, node |-> statement]
        ELSE Bind(ParseStatement(Eat(n.p)), LAMBDA f :
                [p |-> f.p,
                 node |-> [statement EXCEPT !.false_branch = Optional(f.node)]]))))))

ParseWhileStatement(p) ==
    Bind(ExpectToken(p, TokenType.keyword_while), LAMBDA e1 :
    Bind(ParseExpression(e1.p, Precedence.lowest), LAMBDA c :
    Bind(ParseStatement(c.p), LAMBDA b :
        [p |-> b.p,
         node |-> [WhileStatement EXCEPT !.condition = c.node, !.body = b.node]])))

ParseAssignmentStatement(p) ==
    Bind(ExpectToken(p, TokenType.identifier), LAMBDA e1 :
    Bind(ExpectToken(e1.p, Ord("=")), LAMBDA e2 :
    Bind(ParseExpression(e2.p, Precedence.lowest), LAMBDA v :
    Bind(ExpectToken(v.p, Ord(";")), LAMBDA e3 :
        [p |-> e3.p,
         node |-> [AssignmentStatement EXCEPT !.identifier = e1.token,
                                              !.value = v.node]]))))

ParseReturnStatement(p) ==
    Bind(ExpectToken(p, TokenType.keyword_return), LAMBDA e1 :
    Bind(NextTokenIs(e1.p, Ord(";")), LAMBDA n :
        IF ~n.is
        THEN Bind(ParseExpression(n.p, Precedence.lowest), LAMBDA v :
                [p |-> ExpectToken(v.p, Ord(";")).p,
                 node |-> [ReturnStatement EXCEPT !.value = v.node]])
        ELSE [p |-> ExpectToken(n.p, Ord(";")).p, node |-> ReturnStatement]))

\* ParseBlockLoop that puts each statement in front of the ones before it.
RECURSIVE ParseBlockLoopPrepending(_, _)
ParseBlockLoopPrepending(p, temp) ==
    Bind(LoopGoesOn(p, Ord("}")), LAMBDA c :
        IF ~c.is
        THEN [p |-> c.p, temp |-> temp]
        ELSE Bind(ParseStatement(c.p), LAMBDA s_ :
                ParseBlockLoopPrepending(s_.p, <<s_.node>> \o temp)))

\* The statement loop of ParseBlockStatement: temp holds the statements so far.
ParseBlockLoop(p, temp) ==
    Bind(LoopGoesOn(p, Ord("}")), LAMBDA c :
        IF ~c.is
        THEN [p |-> c.p, temp |-> temp]
        ELSE Bind(ParseStatement(c.p), LAMBDA s_ :
                ParseBlockLoop(s_.p, Append(temp, s_.node))))

ParseBlockStatement(p) ==
    Bind(ExpectToken(p, Ord("{")), LAMBDA e1 :
    Bind(ParseBlockLoop(e1.p, <<>>), LAMBDA m :
    Bind(ExpectToken(m.p, Ord("}")), LAMBDA e2 :
        [p |-> ArenaPushArray(e2.p, Len(m.temp)),
         node |-> [BlockStatement EXCEPT !.body = m.temp]])))

\* ParseStatementSwitch that takes an identifier followed by '==' for an
\* assignment too.
ParseStatementSwitchEqualsAssigns(p, token_type, next_token_type) ==
    CASE token_type = TokenType.identifier /\ next_token_type = Ord(":") ->
            ParseVariableDeclaration(p)
      [] token_type = TokenType.identifier
             /\ next_token_type \in {Ord("="), TokenType.equals} ->
            ParseAssignmentStatement(p)
      [] token_type = TokenType.keyword_proc -> ParseProcedureDeclaration(p)
      [] token_type = TokenType.keyword_const -> ParseConstantDeclaration(p)
      [] token_type = TokenType.keyword_type -> ParseTypeDeclaration(p)
      [] token_type = TokenType.keyword_if -> ParseIfStatement(p)
      [] token_type = TokenType.keyword_while -> ParseWhileStatement(p)
      [] token_type = TokenType.keyword_return -> ParseReturnStatement(p)
      [] token_type = Ord("{") -> ParseBlockStatement(p)
      [] OTHER -> ParseExpressionStatement(p)

\* The declaration or statement that ParseStatement's switch selects.
ParseStatementSwitch(p, token_type, next_token_type) ==
    CASE token_type = TokenType.identifier /\ next_token_type = Ord(":") ->
            ParseVariableDeclaration(p)
      [] token_type = TokenType.identifier /\ next_token_type = Ord("=") ->
            ParseAssignmentStatement(p)
      [] token_type = TokenType.keyword_proc -> ParseProcedureDeclaration(p)
      [] token_type = TokenType.keyword_const -> ParseConstantDeclaration(p)
      [] token_type = TokenType.keyword_type -> ParseTypeDeclaration(p)
      [] token_type = TokenType.keyword_if -> ParseIfStatement(p)
      [] token_type = TokenType.keyword_while -> ParseWhileStatement(p)
      [] token_type = TokenType.keyword_return -> ParseReturnStatement(p)
      [] token_type = Ord("{") -> ParseBlockStatement(p)
      [] OTHER -> ParseExpressionStatement(p)

ParseStatement(p) ==
    Bind(Peek(p), LAMBDA k :
        IF k.token.type = TokenType.identifier
        THEN Bind(PeekAhead(k.p, 1), LAMBDA k1 :
                ParseStatementSwitch(k1.p, k.token.type, k1.token.type))
        ELSE ParseStatementSwitch(k.p, k.token.type, TokenType.invalid))

(***************************************************************************)
(* Ast::NodeToString, as a traversal: TRUE when the call returns, FALSE    *)
(* when it reads node->type through a pointer that is not a node.          *)
(***************************************************************************)
RECURSIVE NodeToString(_)
NodeToString(node) ==
    IF node = nullptr THEN FALSE
    ELSE CASE node.type = NodeType.declaration_procedure ->
                /\ \A i \in DOMAIN node.parameters : NodeToString(node.parameters[i].type)
                /\ NodeToString(node.return_type)
                /\ NodeToString(node.body)
           [] node.type = NodeType.declaration_type -> NodeToString(node.declared_type)
           [] node.type = NodeType.type_identifier -> TRUE
           [] node.type = NodeType.type_struct ->
                \A i \in DOMAIN node.members : NodeToString(node.members[i].type)
           [] node.type = NodeType.type_pointer -> NodeToString(node.points_to)
           [] node.type = NodeType.declaration_const ->
                NodeToString(node.variable_type) /\ NodeToString(node.value)
           [] node.type = NodeType.declaration_variable ->
                /\ NodeToString(node.variable_type)
                /\ node.value.has_value => NodeToString(node.value.value)
           [] node.type = NodeType.statement_return -> NodeToString(node.value)
           [] node.type = NodeType.statement_if ->
                /\ NodeToString(node.condition)
                /\ NodeToString(node.true_branch)
                /\ node.false_branch.has_value => NodeToString(node.false_branch.value)
           [] node.type = NodeType.statement_while ->
                NodeToString(node.condition) /\ NodeToString(node.body)
           [] node.type = NodeType.statement_assingment -> NodeToString(node.value)
           [] node.type = NodeType.statement_block ->
                \A i \in DOMAIN node.body : NodeToString(node.body[i])
           [] node.type = NodeType.statement_expression -> NodeToString(node.expression)
           [] node.type = NodeType.expression_integer_literal -> TRUE
           [] node.type = NodeType.expression_bool_literal -> TRUE
           [] node.type = NodeType.expression_identifier -> TRUE
           [] node.type = NodeType.expression_unary_operator -> NodeToString(node.right)
           [] node.type = NodeType.expression_binary_operator ->
                NodeToString(node.left) /\ NodeToString(node.right)
           [] OTHER -> TRUE

(***************************************************************************)
(* Program texts.  A text is written word by word; Source spells the       *)
(* words out and puts one space between them.                              *)
(***************************************************************************)
Spell(word) ==
    CASE word = "==" -> Str(<<"=", "=">>)
      [] word = "!=" -> Str(<<"!", "=">>)
      [] word = "<=" -> Str(<<"<", "=">>)
      [] word = ">=" -> Str(<<">", "=">>)
      [] word = "->" -> Str(<<"-", ">">>)
      [] word = "if" -> Str(<<"i", "f">>)
      [] word = "else" -> Str(<<"e", "l", "s", "e">>)
      [] word = "while" -> Str(<<"w", "h", "i", "l", "e">>)
      [] word = "return" -> Str(<<"r", "e", "t", "u", "r", "n">>)
      [] word = "proc" -> Str(<<"p", "r", "o", "c">>)
      [] word = "const" -> Str(<<"c", "o", "n", "s", "t">>)
      [] word = "type" -> Str(<<"t", "y", "p", "e">>)
      [] word = "struct" -> Str(<<"s", "t", "r", "u", "c", "t">>)
      [] word = "true" -> Str(<<"t", "r", "u", "e">>)
      [] word = "false" -> Str(<<"f", "a", "l", "s", "e">>)
      [] word = "int" -> Str(<<"i", "n", "t">>)
      [] word = "space" -> <<SPACE>>
      [] word = "tab" -> <<TAB>>
      [] word = "lf" -> <<LF>>
      [] word = "crlf" -> <<CR, LF>>
      [] OTHER -> <<Ord(word)>>

RECURSIVE Source(_)
Source(words_) ==
    IF words_ = <<>> THEN <<>>
    ELSE IF Len(words_) = 1 THEN Spell(words_[1])
    ELSE Spell(words_[1]) \o <<SPACE>> \o Source(Tail(words_))

(***************************************************************************)
(* class Arena.  data_ is the address of the buffer, size_ its capacity.   *)
(* isize has 64 bits; the model's integers do not, so the model gives      *)
(* isize 16 bits: like the real one, its largest value is far above every  *)
(* capacity and alignment of the model.                                    *)
(***************************************************************************)
PTRDIFF_MAX == 2^15 - 1

\* A sum of two isize that does not fit, in a build where it wraps around.
Wrap(value) == ((value + PTRDIFF_MAX + 1) % (2 * (PTRDIFF_MAX + 1))) - (PTRDIFF_MAX + 1)

\* The % of C++, which truncates toward zero.
Rem(a, b) == IF a >= 0 THEN a % b ELSE -((-a) % b)

allocation_default_alignment == 16

Arena(size, data) == [data_ |-> data, size_ |-> size, offset_ |-> 0]

AlignForward(pointer, alignment) ==
    Bind(Rem(pointer, alignment), LAMBDA modulo :
        IF modulo = 0 THEN pointer ELSE pointer + (alignment - modulo))

NullPointer == [null |-> TRUE, mem_offset |-> 0]
Pointer(mem_offset) == [null |-> FALSE, mem_offset |-> mem_offset]

\* Alloc: the arena after the call, the pointer returned (as the offset into
\* the buffer) and how the call ends.  mem_offset + size is a signed sum: when
\* it does not fit in isize the behaviour is undefined, and overflow names what
\* the build makes of it: the sum wraps around, or the addition traps.
Alloc(a, size, alignment, overflow) ==
    IF size = 0
    THEN [a |-> a, pointer |-> NullPointer, outcome |-> "returned"]
    ELSE Bind(AlignForward(a.data_ + a.offset_, alignment) - a.data_, LAMBDA mem_offset :
            IF mem_offset + size > PTRDIFF_MAX /\ overflow = "traps"
            THEN [a |-> a, pointer |-> NullPointer, outcome |-> "overflow trap"]
            ELSE Bind(Wrap(mem_offset + size), LAMBDA end :
                    IF end > a.size_
                    THEN [a |-> a, pointer |-> NullPointer,
                          outcome |-> "Arena is out of memory"]
                    ELSE [a |-> [a EXCEPT !.offset_ = end],
                          pointer |-> Pointer(mem_offset), outcome |-> "returned"]))

\* PushItem<Item>: item carries sizeof(Item) and alignof(Item).
PushItem(a, item, overflow) == Alloc(a, item.size, item.alignment, overflow)

\* PushArray<Item>(count), through PushArrayPointer.
PushArray(a, item, count, overflow) == Alloc(a, item.size * count, item.alignment, overflow)

Clear(a) == [a EXCEPT !.offset_ = 0]

NoArena == Arena(0, 0)

(***************************************************************************)
(* The lexer driven directly by a caller.                                  *)
(***************************************************************************)
LexAlphabet == {Ord("a"), Ord("1"), Ord("="), Ord("@"), SPACE, LF, CR}

RECURSIVE Texts(_, _)
Texts(alphabet, n) ==
    IF n = 0 THEN {<<>>}
    ELSE LET shorter == Texts(alphabet, n - 1)
         IN  shorter \cup {Append(t, c) : t \in {s \in shorter : Len(s) = n - 1}, c \in alphabet}

LexInputs == Texts(LexAlphabet, MaxInputLen)

NoRef == [index |-> -1, token |-> Token]
NoParser == Parser(<<>>)
NoResult == [declarations |-> <<>>, error_count |-> 0]

InitLexer ==
    /\ lexer \in {Lexer(input) : input \in LexInputs}
    /\ ret = NoRef
    /\ panic = "none"
    /\ arena = NoArena
    /\ parser = NoParser
    /\ result = NoResult
    /\ pc = "lexer"
    /\ words = <<>>

DoPeekNextToken ==
    /\ pc = "lexer" /\ panic = "none"
    /\ \E r \in {PeekNextToken(lexer)} : lexer' = r.l /\ ret' = r.ref
    /\ UNCHANGED <<panic, parser, result, pc, words, arena>>

DoPeekToken(peek) ==
    /\ pc = "lexer" /\ panic = "none"
    /\ \E r \in {PeekToken(lexer, peek)} : lexer' = r.l /\ ret' = r.ref
    /\ UNCHANGED <<panic, parser, result, pc, words, arena>>

DoEatToken ==
    /\ pc = "lexer" /\ panic = "none"
    /\ lexer.tokens_cursor_ < MaxCursor
    /\ lexer' = EatToken(lexer)
    /\ ret' = NoRef
    /\ UNCHANGED <<panic, parser, result, pc, words, arena>>

DoUneatToken ==
    /\ pc = "lexer" /\ panic = "none"
    /\ IF lexer.tokens_cursor_ > 0
       THEN lexer' = UneatToken(lexer) /\ panic' = panic
       ELSE lexer' = lexer /\ panic' = "No previous token"
    /\ ret' = NoRef
    /\ UNCHANGED <<parser, result, pc, words, arena>>

\* PreviousToken is const: it leaves the lexer as it is, and when it does not
\* return, the process ends.
DoPreviousToken ==
    /\ pc = "lexer" /\ panic = "none"
    /\ \E r \in {PreviousToken(lexer)} :
          IF r.outcome = "returned"
          THEN ret' = TokenRef(lexer, r.index) /\ panic' = panic
          ELSE ret' = NoRef /\ panic' = r.outcome
    /\ UNCHANGED <<lexer, parser, result, pc, words, arena>>

NextLexer ==
    \/ DoPeekNextToken
    \/ DoPreviousToken
    \/ \E peek \in 0..MaxPeek : DoPeekToken(peek)
    \/ DoEatToken
    \/ DoUneatToken

SpecLexer == InitLexer /\ [][NextLexer]_vars

(***************************************************************************)
(* Properties of the lexer, checked under SpecLexer.                       *)
(***************************************************************************)
CanStartToken(ch) ==
    ch \in ExtensibleChars \cup SingleChars \/ IsDigit(ch) \/ IsAlpha(ch) \/ ch = Ord("_")

\* The text with every character that can start no token, and is no
\* whitespace either, replaced by a space.
Blank(input) ==
    [i \in 1..Len(input) |->
        LET ch == input[i]
            next == IF i < Len(input) THEN input[i + 1] ELSE EOF_CHAR
        IN  IF \/ CanStartToken(ch)
               \/ ch \in {SPACE, TAB, LF}
               \/ (ch = CR /\ next = LF)
            THEN ch
            ELSE SPACE]

\* C7: a character that can start no token yields no token of its own and
\* separates like whitespace: the tokens scanned so far are the tokens scanned
\* from the text with such characters blanked.
C7_UnscannableIsSeparator ==
    LET n == Len(lexer.tokens_)
    IN  (pc = "lexer" /\ n > 0) =>
            lexer.tokens_ = PeekToken(Lexer(Blank(lexer.input_)), n - 1).l.tokens_

\* Nothing but whitespace is left of the input.
InputExhausted(l) == PeekNextChar(SkipWhitespaces(l)) = EOF_CHAR

\* The number of tokens the text holds in front of its end.
RECURSIVE TokensBeforeEnd(_)
TokensBeforeEnd(l) ==
    IF InputExhausted(l) THEN Len(l.tokens_) ELSE TokensBeforeEnd(Tokenize(l))

\* C8: once the end of the input is reached, every token request at or beyond
\* the first end-of-input token returns a token of kind invalid, after any
\* number of EatToken calls, and no token of another kind is scanned any more.
C8_EofSentinelRepeats ==
    pc = "lexer" =>
        LET first == TokensBeforeEnd(Lexer(lexer.input_))
            L == Len(lexer.tokens_)
        IN  /\ \A i \in (first + 1)..L : lexer.tokens_[i].type = TokenType.invalid
            /\ \A peek \in 0..MaxPeek :
                  LET r == PeekToken(lexer, peek)
                  IN  /\ r.ref.index >= first => r.ref.token.type = TokenType.invalid
                      /\ InputExhausted(lexer) =>
                            /\ \A i \in (L + 1)..Len(r.l.tokens_) :
                                  r.l.tokens_[i].type = TokenType.invalid
                            /\ InputExhausted(r.l)
            /\ PeekNextToken(lexer).ref.index >= first =>
                  PeekNextToken(lexer).ref.token.type = TokenType.invalid

\* C8 witness: a token, then two sentinels scanned after the end, the last
\* one being the token returned.
C8_Witness ==
    /\ pc = "lexer"
    /\ Len(lexer.tokens_) >= 3
    /\ lexer.tokens_[1].type # TokenType.invalid
    /\ lexer.input_cursor_ >= Len(lexer.input_) + 2
    /\ ret.index = Len(lexer.tokens_) - 1
    /\ ret.token.type = TokenType.invalid

\* C9: peeking twice at one offset with nothing eaten in between returns the
\* same token twice, and neither peek moves the cursor or changes the tokens
\* the first one left buffered.
C9_PeekIdempotent ==
    pc = "lexer" =>
        /\ \A peek \in 0..MaxPeek :
              LET first == PeekToken(lexer, peek)
                  second == PeekToken(first.l, peek)
              IN  /\ second.ref = first.ref
                  /\ second.l = first.l
                  /\ first.l.tokens_cursor_ = lexer.tokens_cursor_
        /\ LET first == PeekNextToken(lexer)
               second == PeekNextToken(first.l)
           IN  /\ second.ref = first.ref
               /\ second.l = first.l
               /\ first.l.tokens_cursor_ = lexer.tokens_cursor_

\* C9 witness: a peek that had to scan has returned a token that is not the
\* sentinel, below a cursor that a previous EatToken moved.
C9_Witness ==
    /\ pc = "lexer"
    /\ lexer.tokens_cursor_ > 0
    /\ ret.index > lexer.tokens_cursor_
    /\ ret.index = Len(lexer.tokens_) - 1
    /\ ret.token.type # TokenType.invalid

Max(a, b) == IF a >= b THEN a ELSE b

\* C10: with the cursor at c, PeekToken(n) returns the token at position
\* c + n and scans as many tokens as that takes: none if the token is
\* buffered; the buffered tokens stay as they are.
C10_PeekScansOnDemand ==
    pc = "lexer" =>
        \A peek \in 0..MaxPeek :
            LET r == PeekToken(lexer, peek)
                c == lexer.tokens_cursor_
                L == Len(lexer.tokens_)
            IN  /\ r.ref.index = c + peek
                /\ r.ref.token = r.l.tokens_[c + peek + 1]
                /\ Len(r.l.tokens_) = Max(L, c + peek + 1)
                /\ SubSeq(r.l.tokens_, 1, L) = lexer.tokens_
                /\ r.l.tokens_ = PeekToken(Lexer(lexer.input_), Len(r.l.tokens_) - 1).l.tokens_

\* C10 witness: a peek at an offset above 0 was answered from the buffer,
\* which holds tokens beyond the one returned.
C10_Witness ==
    /\ pc = "lexer"
    /\ ret.index > lexer.tokens_cursor_
    /\ ret.index < Len(lexer.tokens_) - 1
    /\ ret.token.type # TokenType.invalid


\* C11: EatToken adds one to the token cursor and UneatToken takes one off
\* when the cursor is above 0, so that UneatToken undoes EatToken; at cursor
\* 0 UneatToken ends in Panic("No previous token") with the cursor still 0;
\* neither changes the token buffer.
C11_EatUneatCursor ==
    [][/\ DoEatToken =>
            /\ lexer'.tokens_cursor_ = lexer.tokens_cursor_ + 1
            /\ lexer'.tokens_ = lexer.tokens_
            /\ panic' = "none"
            /\ UneatToken(lexer') = lexer
       /\ DoUneatToken =>
            /\ lexer'.tokens_ = lexer.tokens_
            /\ lexer'.tokens_cursor_ >= 0
            /\ IF lexer.tokens_cursor_ > 0
               THEN lexer'.tokens_cursor_ = lexer.tokens_cursor_ - 1 /\ panic' = "none"
               ELSE lexer'.tokens_cursor_ = 0 /\ panic' = "No previous token"]_vars

\* C11 witness: UneatToken was called at cursor 0 with tokens in the buffer.
C11_Witness ==
    /\ pc = "lexer"
    /\ panic = "No previous token"
    /\ lexer.tokens_cursor_ = 0
    /\ Len(lexer.tokens_) > 0

\* C12: PreviousToken at token cursor 0 takes the path of
\* Panic("No previous token"), and it returns a token, the one at index
\* cursor - 1, only when the cursor is 1 or more.
C12_PreviousTokenPanicsAtZero ==
    pc = "lexer" =>
        /\ lexer.tokens_cursor_ = 0 => PreviousToken(lexer).outcome = "No previous token"
        /\ PreviousToken(lexer).outcome = "returned" =>
              /\ lexer.tokens_cursor_ >= 1
              /\ PreviousToken(lexer).index = lexer.tokens_cursor_ - 1

\* The lexer a second instance on the same input is after scanning count
\* tokens, whatever calls scanned them.
FreshScan(input, count) ==
    IF count = 0 THEN Lexer(input) ELSE PeekToken(Lexer(input), count - 1).l

CharAfter(input, index) == IF index < Len(input) THEN input[index + 1] ELSE EOF_CHAR

\* The position of the character of input at offset (from 0), counted as the
\* claim counts: from line 1, column 1; after a '\n' the next line, column 1,
\* a '\r' right before a '\n' counting with it; after any other character the
\* next column.
RECURSIVE Location(_, _)
Location(input, offset) ==
    IF offset = 0 THEN FileLocation(1, 1)
    ELSE IF input[offset] = LF
    THEN FileLocation(Location(input, offset - 1).line + 1, 1)
    ELSE IF input[offset] = CR /\ CharAfter(input, offset) = LF
    THEN Location(input, offset - 1)
    ELSE FileLocation(Location(input, offset - 1).line,
                      Location(input, offset - 1).column + 1)

\* The number of decimal digits of value.
RECURSIVE DigitCount(_)
DigitCount(value) == IF value < 10 THEN 1 ELSE 1 + DigitCount(value \div 10)

\* The number of characters of a token that is no end-of-input sentinel.
TokenLength(token) ==
    CASE token.type = TokenType.integer -> DigitCount(token.integer_value)
      [] token.type = TokenType.identifier -> Len(token.identifier)
      [] token.type >= TokenType.keyword_if /\ token.type <= TokenType.keyword_struct ->
             Len(token.identifier)
      [] token.type >= TokenType.plus_assign /\ token.type <= TokenType.return_arrow -> 2
      [] OTHER -> 1

\* ch can be the first character of token.
StartsToken(token, ch) ==
    CASE token.type = TokenType.integer -> IsDigit(ch)
      [] token.type = TokenType.identifier -> ch = token.identifier[1]
      [] token.type >= TokenType.keyword_if /\ token.type <= TokenType.keyword_struct ->
             ch = token.identifier[1]
      [] token.type >= TokenType.plus_assign /\ token.type <= TokenType.return_arrow ->
             ch \in ExtensibleChars
      [] token.type = TokenType.invalid -> ~CanStartToken(ch)
      [] OTHER -> ch = token.type

\* C19: positions count from 1: the first token of a text without leading
\* whitespace starts at line 1, column 1; each '\n' and each '\r\n' pair
\* consumed adds one to the line and sets the column to 1 (the pair moving the
\* input cursor by two), every other character consumed adds one to the
\* column; a token ends at its last character, on the line it starts on, at
\* start column + length - 1.
C19_Positions ==
    pc = "lexer" =>
        /\ lexer.input_cursor_ <= Len(lexer.input_) =>
              lexer.current_location_ = Location(lexer.input_, lexer.input_cursor_)
        /\ (Len(lexer.tokens_) > 0 /\ lexer.input_ # <<>>
                /\ lexer.input_[1] \notin {SPACE, TAB, LF}
                /\ ~(lexer.input_[1] = CR /\ CharAfter(lexer.input_, 1) = LF)) =>
              lexer.tokens_[1].start = FileLocation(1, 1)
        /\ \A i \in 1..Len(lexer.tokens_) :
              /\ lexer.tokens_[i].end.line = lexer.tokens_[i].start.line
              /\ lexer.tokens_[i].end.column =
                    lexer.tokens_[i].start.column + TokenLength(lexer.tokens_[i]) - 1
              /\ i <= TokensBeforeEnd(Lexer(lexer.input_)) =>
                    \E offset \in 0..(Len(lexer.input_) - 1) :
                        /\ Location(lexer.input_, offset) = lexer.tokens_[i].start
                        /\ StartsToken(lexer.tokens_[i], lexer.input_[offset + 1])
C19_Witness ==
    /\ pc = "lexer"
    /\ lexer.input_ = <<CR, LF, Ord("a")>>
    /\ Len(lexer.tokens_) = 1
    /\ lexer.tokens_[1].start = FileLocation(2, 1)
    /\ lexer.tokens_[1].end = FileLocation(2, 1)

\* C28: the condition token.end.column != 0 that Tokenize asserts before it
\* stores a token holds for every token of every text: each call, at the end
\* of the text and on a character no token starts with too, consumes at least
\* one character that is no line break after the token's start, so the end
\* column is at least 1 and, on the line of the start, not before the start.
C28_EndColumnPositive ==
    \A i \in 1..Len(lexer.tokens_) :
        /\ lexer.tokens_[i].end.column # 0
        /\ lexer.tokens_[i].end.column >= 1
        /\ lexer.tokens_[i].end.line = lexer.tokens_[i].start.line
        /\ lexer.tokens_[i].end.column >= lexer.tokens_[i].start.column

\* A text of a line break and a character no token starts with, scanned to
\* the sentinel behind it.
C28_Witness ==
    /\ lexer.input_ = <<LF, Ord("@")>>
    /\ Len(lexer.tokens_) = 2
    /\ lexer.tokens_[1].type = TokenType.invalid
    /\ lexer.tokens_[1].start = FileLocation(2, 1)
    /\ lexer.tokens_[1].end = FileLocation(2, 1)
    /\ lexer.tokens_[2].end = FileLocation(2, 2)

(***************************************************************************)
(* Parser::ParseProgram, one iteration of its loop at a time.              *)
(***************************************************************************)
BinaryOps == {"==", "!=", "<", ">", "<=", ">=", "+", "-", "*", "/", "%"}
Leaves == {"b", "1", "true"}

\* x op1 y op2 z as the initializer of a variable declaration.
ExprProgram(x, op1, y, op2, z) == <<"a", ":", "t", "=", x, op1, y, op2, z, ";">>

ExprPrograms ==
    {ExprProgram(x, op1, y, op2, z) : x \in Leaves, y \in Leaves, z \in Leaves,
                                      op1 \in BinaryOps, op2 \in BinaryOps}
        \cup {<<"a", ":", "int", "=", "1", "+", "2", "*", "3", ";">>}

WellFormedDeclarations ==
    { <<"b", ":", "t", "=", "1", ";">>,
      <<"c", ":", "t", ";">>,
      <<"const", "c", ":", "t", "=", "2", ";">>,
      <<"type", "c", "=", "*", "t", ";">> }

\* Declarations with one syntax error each: no initializer expression, no
\* type, no closing semicolon, a constant without initializer.
SingleErrorDeclarations ==
    { <<"a", ":", "t", "=", ";">>,
      <<"a", ":", "=", "1", ";">>,
      <<"a", ":", "t", "=", "1">>,
      <<"const", "a", ":", "t", ";">> }

\* Well-formed statements that are no declarations.
TopLevelStatements ==
    { <<"a", "=", "1", ";">>,
      <<"if", "a", "b", "=", "1", ";">>,
      <<"if", "a", "{", "}", "else", "{", "}">>,
      <<"while", "a", "{", "}">>,
      <<"{", "}">>,
      <<"return", ";">>,
      <<"return", "1", ";">>,
      <<"a", "+", "1", ";">> }

RECURSIVE Flatten(_)
Flatten(texts) == IF texts = <<>> THEN <<>> ELSE Head(texts) \o Flatten(Tail(texts))

\* The lists of 1..n elements of set.
RECURSIVE Lists(_, _)
Lists(set, n) ==
    IF n = 0 THEN {}
    ELSE LET shorter == Lists(set, n - 1)
         IN  {<<e>> : e \in set} \cup {Append(l, e) : l \in shorter, e \in set}

\* One erroneous declaration, then well-formed ones.
ResyncPrograms ==
    {e \o Flatten(fs) : e \in SingleErrorDeclarations,
                        fs \in Lists(WellFormedDeclarations, MaxFollowing)}

\* Well-formed constructs at top level, statements among them.
TopLevelPrograms ==
    {Flatten(cs) : cs \in Lists(TopLevelStatements \cup WellFormedDeclarations, MaxTopLevel)}

\* A procedure whose body is one construct.
ProcProgram(body) == <<"proc", "f", "(", "a", ":", "t", ")", "->", "t", "{">> \o body \o <<"}">>

ProcPrograms ==
    {ProcProgram(body) : body \in TopLevelStatements \cup WellFormedDeclarations
                                   \cup SingleErrorDeclarations}

\* Every text of at most MaxWords words of a small vocabulary.
WordAlphabet == {"a", "1", ":", "=", ";", "-", "{", "}", "if", "@"}

RECURSIVE WordTexts(_)
WordTexts(n) ==
    IF n = 0 THEN {<<>>}
    ELSE LET shorter == WordTexts(n - 1)
         IN  shorter \cup {Append(t, w) : t \in {s \in shorter : Len(s) = n - 1},
                                           w \in WordAlphabet}

\* An if statement with arms else-if arms after it and, with else_, a closing
\* else; parens puts each condition in parentheses.  The first condition is a,
\* the others are c.
Condition(name, parens) == IF parens THEN <<"(", name, ")">> ELSE <<name>>

RECURSIVE ElseIfArms(_, _)
ElseIfArms(arms, parens) ==
    IF arms = 0 THEN <<>>
    ELSE <<"else", "if">> \o Condition("c", parens) \o <<"{", "b", "=", "2", ";", "}">>
             \o ElseIfArms(arms - 1, parens)

IfChain(arms, parens, else_) ==
    <<"if">> \o Condition("a", parens) \o <<"{", "b", "=", "1", ";", "}">>
        \o ElseIfArms(arms, parens)
        \o (IF else_ THEN <<"else", "{", "b", "=", "3", ";", "}">> ELSE <<>>)

IfChains ==
    {ProcProgram(IfChain(arms, parens, else_)) :
        arms \in 0..MaxElseIf, parens \in BOOLEAN, else_ \in BOOLEAN}

\* Texts beginning with each kind of token ParseStatement tells apart, and
\* with an identifier followed by each kind of second token.
DispatchFirstWords ==
    {"a", "1", "-", ";", "==", "}", "{", "if", "while", "return", "proc", "const", "type",
     "else", "struct", "true"}
DispatchSecondWords == {":", "=", "==", ";", "+", "a", "->", "{"}
DispatchPrograms ==
    {<<first>> : first \in DispatchFirstWords}
        \cup {<<first, "a", ";">> : first \in DispatchFirstWords}
        \cup {<<"a", second, "1", ";">> : second \in DispatchSecondWords}

\* One declaration: a variable or, with const_, a constant, of a type, with or
\* without initializer.
Declaration(const_, name, type, init) ==
    (IF const_ THEN <<"const">> ELSE <<>>) \o <<name, ":">> \o type \o init \o <<";">>
DeclaredNames == {"a", "b"}
DeclaredTypes == {<<"t">>, <<"int">>, <<"*", "t">>}
Initializers == {<<>>, <<"=", "1">>, <<"=", "a", "+", "1">>}
DeclarationPrograms ==
    {Declaration(const_, name, type, init) :
        const_ \in BOOLEAN, name \in DeclaredNames, type \in DeclaredTypes,
        init \in Initializers}

\* A block of up to MaxTopLevel statements and declarations of different kinds.
BlockItems ==
    { <<"a", "=", "1", ";">>, <<"b", ":", "t", ";">>, <<"return", ";">>, <<"{", "}">> }
Block(items) == <<"{">> \o Flatten(items) \o <<"}">>
BlockBodies == Lists(BlockItems, MaxTopLevel) \cup {<<>>}
BlockPrograms == {Block(items) : items \in BlockBodies}

\* u x op y and u1 u2 x as the initializer of a variable declaration.
PrefixOps == {"-", "!"}
PrefixBinaryProgram(u, x, op, y) == <<"a", ":", "t", "=", u, x, op, y, ";">>
PrefixPrefixProgram(u1, u2, x) == <<"a", ":", "t", "=", u1, u2, x, ";">>
PrefixPrograms ==
    {PrefixBinaryProgram(u, x, op, y) :
        u \in PrefixOps, x \in Leaves, op \in BinaryOps, y \in Leaves}
        \cup {PrefixPrefixProgram(u1, u2, x) :
                 u1 \in PrefixOps, u2 \in PrefixOps, x \in Leaves}

\* Texts of whitespace alone: spaces, tabs and line breaks of both kinds.
\* Texts that end inside the parameter list, the body, a prefix expression or
\* the member list of a struct: every beginning of two declarations.
Prefixes(text) == {SubSeq(text, 1, n) : n \in 1..Len(text)}
LoopTexts ==
    {<<"proc", "f", "(", "a", ":", "t", ",", "b", ":", "*", "t", ")", "->", "t",
       "{", "-", "-", "a", ";", "}">>,
     <<"type", "s", "=", "struct", "{", "a", ":", "t", ";", "b", ":", "*", "*", "t",
       ";", "}", ";">>}
LoopPrograms == UNION {Prefixes(text) : text \in LoopTexts}

BlankWords == {"space", "tab", "lf", "crlf"}
BlankPrograms == Lists(BlankWords, MaxWords)

ParserInputs ==
    ExprPrograms \cup ResyncPrograms \cup TopLevelPrograms \cup ProcPrograms
        \cup WordTexts(MaxWords) \cup BlankPrograms \cup IfChains \cup DispatchPrograms
        \cup DeclarationPrograms \cup BlockPrograms \cup PrefixPrograms
        \cup LoopPrograms

InitParser ==
    /\ words \in ParserInputs
    /\ parser = Parser(Source(words))
    /\ result = NoResult
    /\ pc = "ParseProgram"
    /\ lexer = Lexer(<<>>)
    /\ ret = NoRef
    /\ panic = "none"
    /\ arena = NoArena

\* The body of the while (true) loop after the test for the sentinel: the
\* statement parsed, demoted if it is no declaration.
ParseProgramBody(p, token) ==
    Bind(ParseStatement(p), LAMBDA s_ :
        IF ~IsDeclaration(s_.node)
        THEN [p |-> LogError(s_.p, token, "Expected declaration.", <<>>),
              node |-> [s_.node EXCEPT !.type = NodeType.invalid]]
        ELSE s_)

\* One pass through the body of the while (true) loop that does not break.
ParseProgramIteration ==
    /\ pc = "ParseProgram"
    /\ \E k \in {Peek(parser)} :
          /\ k.token.type # TokenType.invalid
          /\ \E s_ \in {ParseProgramBody(k.p, k.token)} :
                /\ parser' = s_.p
                /\ result' = [result EXCEPT !.declarations = Append(@, s_.node)]
    /\ UNCHANGED <<lexer, ret, panic, pc, words, arena>>

\* A loop that does not break at the sentinel: it tests it again.
ParseProgramReturnLooping ==
    /\ pc = "ParseProgram"
    /\ \E k \in {Peek(parser)} :
          /\ k.token.type = TokenType.invalid
          /\ parser' = k.p
    /\ UNCHANGED <<lexer, ret, panic, pc, result, words, arena>>

\* The pass that breaks out of the loop, and the return.
ParseProgramReturn ==
    /\ pc = "ParseProgram"
    /\ \E k \in {Peek(parser)} :
          /\ k.token.type = TokenType.invalid
          /\ parser' = k.p
          /\ result' = [result EXCEPT !.error_count = k.p.error_count_]
    /\ pc' = "returned"
    /\ UNCHANGED <<lexer, ret, panic, words, arena>>

NextParser ==
    \/ ParseProgramIteration
    \/ ParseProgramReturn

SpecParser == InitParser /\ [][NextParser]_vars

\* ParseProgram runs on one thread that nothing suspends: a pass of the loop
\* that can be taken is taken.
SpecParserFair == SpecParser /\ WF_vars(NextParser)

(***************************************************************************)
(* Properties of the parser, checked under SpecParser.                     *)
(***************************************************************************)
\* A token without its place in the text.
StripToken(token) ==
    [type |-> token.type, identifier |-> token.identifier,
     integer_value |-> token.integer_value]

\* A tree without the places of its tokens.
RECURSIVE Shape(_)
Shape(node) ==
    IF node = nullptr THEN nullptr
    ELSE CASE node.type = NodeType.declaration_variable ->
                [type |-> node.type, identifier |-> StripToken(node.identifier),
                 variable_type |-> Shape(node.variable_type),
                 value |-> [has_value |-> node.value.has_value,
                            value |-> Shape(node.value.value)]]
           [] node.type = NodeType.declaration_const ->
                [type |-> node.type, identifier |-> StripToken(node.identifier),
                 variable_type |-> Shape(node.variable_type), value |-> Shape(node.value)]
           [] node.type = NodeType.declaration_type ->
                [type |-> node.type, identifier |-> StripToken(node.identifier),
                 declared_type |-> Shape(node.declared_type)]
           [] node.type = NodeType.type_identifier ->
                [type |-> node.type, identifier |-> StripToken(node.identifier)]
           [] node.type = NodeType.type_pointer ->
                [type |-> node.type, points_to |-> Shape(node.points_to)]
           [] node.type = NodeType.expression_integer_literal ->
                [type |-> node.type, value |-> StripToken(node.value)]
           [] node.type = NodeType.expression_bool_literal ->
                [type |-> node.type, value |-> node.value]
           [] node.type = NodeType.expression_identifier ->
                [type |-> node.type, identifier |-> StripToken(node.identifier)]
           [] node.type = NodeType.expression_unary_operator ->
                [type |-> node.type, op |-> node.op, right |-> Shape(node.right)]
           [] node.type = NodeType.expression_binary_operator ->
                [type |-> node.type, op |-> node.op,
                 left |-> Shape(node.left), right |-> Shape(node.right)]
           [] OTHER -> [type |-> node.type]

\* The kind of token an operator is scanned to.
OpKind(op) ==
    CASE op = "==" -> TokenType.equals
      [] op = "!=" -> TokenType.not_equals
      [] op = "<=" -> TokenType.less_equals
      [] op = ">=" -> TokenType.greater_equals
      [] OTHER -> Ord(op)

\* The levels of binding, loosest first: equality, comparison, additive,
\* multiplicative.
Tier(op) ==
    CASE op \in {"==", "!="} -> 1
      [] op \in {"<", ">", "<=", ">="} -> 2
      [] op \in {"+", "-"} -> 3
      [] op \in {"*", "/", "%"} -> 4

BinaryOp(op, left, right) ==
    [type |-> NodeType.expression_binary_operator, op |-> OpKind(op),
     left |-> left, right |-> right]

Operand(word) ==
    CASE word = "true" ->
            [type |-> NodeType.expression_bool_literal, value |-> TRUE]
      [] word \in {"1", "2", "3"} ->
            [type |-> NodeType.expression_integer_literal,
             value |-> [type |-> TokenType.integer, identifier |-> <<>>,
                        integer_value |-> Ord(word) - Ord("0")]]
      [] OTHER ->
            [type |-> NodeType.expression_identifier,
             identifier |-> [type |-> TokenType.identifier, identifier |-> Spell(word),
                             integer_value |-> 0]]

\* The tree x op1 y op2 z stands for: the tighter operator binds first, the
\* left one among equals.
Grouped(x, op1, y, op2, z) ==
    IF Tier(op2) > Tier(op1)
    THEN BinaryOp(op1, Operand(x), BinaryOp(op2, Operand(y), Operand(z)))
    ELSE BinaryOp(op2, BinaryOp(op1, Operand(x), Operand(y)), Operand(z))

\* The text is a : <type> = x op1 y op2 z ;
IsExprProgram(text) ==
    /\ Len(text) = 10
    /\ text[1] = "a" /\ text[2] = ":" /\ text[4] = "=" /\ text[10] = ";"
    /\ text[6] \in BinaryOps /\ text[8] \in BinaryOps

\* C1: binary operators group by precedence (multiplicative over additive
\* over comparison over equality) and operators of one level group to the
\* left; a: int = 1 + 2 * 3; is one variable declaration whose value is
\* BinaryOp(+, 1, BinaryOp(*, 2, 3)).
C1_PrecedenceClimbing ==
    (pc = "returned" /\ IsExprProgram(words)) =>
        /\ result.error_count = 0
        /\ Len(result.declarations) = 1
        /\ result.declarations[1].type = NodeType.declaration_variable
        /\ result.declarations[1].value.has_value
        /\ Shape(result.declarations[1].value.value)
                = Grouped(words[5], words[6], words[7], words[8], words[9])
        /\ words = <<"a", ":", "int", "=", "1", "+", "2", "*", "3", ";">> =>
                Shape(result.declarations[1].value.value)
                    = BinaryOp("+", Operand("1"), BinaryOp("*", Operand("2"), Operand("3")))

\* C1 witness: a: int = 1 + 2 * 3; has been parsed.
C1_Witness ==
    /\ pc = "returned"
    /\ words = <<"a", ":", "int", "=", "1", "+", "2", "*", "3", ";">>
    /\ Len(result.declarations) = 1
    /\ result.declarations[1].value.value.op = Ord("+")
    /\ result.declarations[1].value.value.right.op = Ord("*")

\* C2: one syntax error yields one diagnostic and one invalid node, and each
\* declaration after it is parsed to the node it yields on its own.
C2_NoCascade ==
    pc = "returned" =>
        \A e \in SingleErrorDeclarations :
            \A fs \in Lists(WellFormedDeclarations, MaxFollowing) :
                words = e \o Flatten(fs) =>
                    /\ Len(parser.log_) = 1
                    /\ result.error_count = 1
                    /\ Len(result.declarations) = 1 + Len(fs)
                    /\ result.declarations[1].type = NodeType.invalid
                    /\ \A i \in DOMAIN fs :
                          Shape(result.declarations[i + 1])
                              = Shape(ParseStatement(Parser(Source(fs[i]))).node)

\* The number of constructs in cs that are no declarations.
RECURSIVE CountStatements(_)
CountStatements(cs) ==
    IF cs = <<>> THEN 0
    ELSE (IF Head(cs) \in TopLevelStatements THEN 1 ELSE 0) + CountStatements(Tail(cs))

\* C4: a top-level construct that is no declaration is kept in the program
\* tagged invalid and adds one to the returned error count, and the constructs
\* after it are parsed.
C4_TopLevelStatementCounted ==
    pc = "returned" =>
        \A cs \in Lists(TopLevelStatements \cup WellFormedDeclarations, MaxTopLevel) :
            words = Flatten(cs) =>
                /\ Len(result.declarations) = Len(cs)
                /\ \A i \in DOMAIN cs :
                      (result.declarations[i].type = NodeType.invalid)
                          <=> (cs[i] \in TopLevelStatements)
                /\ result.error_count = CountStatements(cs)

\* C5: whatever the input, the returned tree can be traversed: no required
\* child is null, and an optional child is absent rather than null.
C5_TreeTraversable ==
    pc = "returned" =>
        \A i \in DOMAIN result.declarations : NodeToString(result.declarations[i])

\* C6: the returned error count is the number of diagnostics reported, so it
\* is 0 exactly when none was.
C6_ErrorCountIsDiagnostics ==
    pc = "returned" => result.error_count = Len(parser.log_)

\* C14: for the empty input, and for input of spaces, tabs and line breaks
\* alone, ParseProgram returns a Program with zero declarations and error count
\* 0, and reports no diagnostic.
C14_BlankInputEmptyProgram ==
    (pc = "returned" /\ words \in BlankPrograms \cup {<<>>}) =>
        /\ result.declarations = <<>>
        /\ result.error_count = 0
        /\ parser.log_ = <<>>
C14_Witness ==
    /\ pc = "returned"
    /\ words = <<"crlf", "tab", "lf">>
    /\ parser.lexer_.input_cursor_ >= Len(Source(words))
    /\ parser.lexer_.tokens_[1].start.line = 3
    /\ result.declarations = <<>>

\* node is an If whose condition is the identifier name and whose true branch
\* is a Block, followed by arms further Ifs (condition c, true branch a Block),
\* each the false branch of the one before, the last one with a Block as false
\* branch when else_.
RECURSIVE IsIfChain(_, _, _, _)
IsIfChain(node, name, arms, else_) ==
    /\ node.type = NodeType.statement_if
    /\ node.condition.type = NodeType.expression_identifier
    /\ node.condition.identifier.identifier = Str(<<name>>)
    /\ node.true_branch.type = NodeType.statement_block
    /\ IF arms > 0
       THEN node.false_branch.has_value
                /\ IsIfChain(node.false_branch.value, "c", arms - 1, else_)
       ELSE IF else_
            THEN node.false_branch.has_value
                     /\ node.false_branch.value.type = NodeType.statement_block
            ELSE node.false_branch.value.type # NodeType.statement_if

\* The statements of the body of the procedure a ProcProgram declares.
ProcBody == result.declarations[1].body.body

\* C15: else-if chaining is right-nested: 'if (a) { b = 1; } else if (c)
\* { b = 2; } else { b = 3; }' yields an If (condition the identifier a, true
\* branch a Block) whose false branch is an If (condition c, true branch a
\* Block) whose false branch is a Block, and a chain of k else-if arms yields
\* k + 1 If nodes, each the false branch of the one before.
C15_ElseIfRightNested ==
    pc = "returned" =>
        \A arms \in 0..MaxElseIf, parens \in BOOLEAN, else_ \in BOOLEAN :
            words = ProcProgram(IfChain(arms, parens, else_)) =>
                /\ Len(result.declarations) = 1
                /\ result.declarations[1].type = NodeType.declaration_procedure
                /\ result.declarations[1].body.type = NodeType.statement_block
                /\ Len(ProcBody) = 1
                /\ IsIfChain(ProcBody[1], "a", arms, else_)

\* The same for conditions written without parentheses.
ElseIfRightNestedBare ==
    pc = "returned" =>
        \A arms \in 0..MaxElseIf, else_ \in BOOLEAN :
            words = ProcProgram(IfChain(arms, FALSE, else_)) =>
                /\ Len(result.declarations) = 1
                /\ Len(ProcBody) = 1
                /\ IsIfChain(ProcBody[1], "a", arms, else_)
                /\ result.error_count = 0

\* The kind of the token in front of parser p, and of the one after it.
CurrentType(p) == Peek(p).token.type
FollowingType(p) == PeekAhead(p, 1).token.type

\* The kind of node each construct's parsing function builds.
DispatchedNodeType(token_type, next_token_type) ==
    CASE token_type = TokenType.identifier ->
            IF next_token_type = Ord(":") THEN NodeType.declaration_variable
            ELSE IF next_token_type = Ord("=") THEN NodeType.statement_assingment
            ELSE NodeType.statement_expression
      [] token_type = TokenType.keyword_if -> NodeType.statement_if
      [] token_type = TokenType.keyword_while -> NodeType.statement_while
      [] token_type = TokenType.keyword_return -> NodeType.statement_return
      [] token_type = TokenType.keyword_proc -> NodeType.declaration_procedure
      [] token_type = TokenType.keyword_const -> NodeType.declaration_const
      [] token_type = TokenType.keyword_type -> NodeType.declaration_type
      [] token_type = Ord("{") -> NodeType.statement_block
      [] OTHER -> NodeType.statement_expression

\* The parsing function the claim names for the token kinds, applied to p.
Dispatched(p, token_type, next_token_type) ==
    CASE token_type = TokenType.identifier ->
            IF next_token_type = Ord(":") THEN ParseVariableDeclaration(p)
            ELSE IF next_token_type = Ord("=") THEN ParseAssignmentStatement(p)
            ELSE ParseExpressionStatement(p)
      [] token_type = TokenType.keyword_if -> ParseIfStatement(p)
      [] token_type = TokenType.keyword_while -> ParseWhileStatement(p)
      [] token_type = TokenType.keyword_return -> ParseReturnStatement(p)
      [] token_type = TokenType.keyword_proc -> ParseProcedureDeclaration(p)
      [] token_type = TokenType.keyword_const -> ParseConstantDeclaration(p)
      [] token_type = TokenType.keyword_type -> ParseTypeDeclaration(p)
      [] token_type = Ord("{") -> ParseBlockStatement(p)
      [] OTHER -> ParseExpressionStatement(p)

\* C20: ParseStatement dispatches on the kind of the current token, and on the
\* kind of the one after it only when the current one is an identifier:
\* identifier ':' is parsed as a variable declaration, identifier '=' as an
\* assignment, an identifier before anything else ('==' included) as an
\* expression statement; if, while, return, proc, const, type and '{' as their
\* own construct; every other kind as an expression statement.  The dispatch
\* consumes no token: the construct is parsed from the current token on, with
\* one token buffered, two after an identifier.
C20_StatementDispatch ==
    (pc = "ParseProgram" /\ CurrentType(parser) # TokenType.invalid) =>
        /\ ParseStatement(parser).node.type =
              DispatchedNodeType(CurrentType(parser), FollowingType(parser))
        /\ ParseStatement(parser) =
              IF CurrentType(parser) = TokenType.identifier
              THEN Dispatched(PeekAhead(parser, 1).p, CurrentType(parser),
                              FollowingType(parser))
              ELSE Dispatched(Peek(parser).p, CurrentType(parser), TokenType.invalid)
        /\ Peek(parser).p.lexer_.tokens_cursor_ = parser.lexer_.tokens_cursor_
        /\ PeekAhead(parser, 1).p.lexer_.tokens_cursor_ = parser.lexer_.tokens_cursor_
C20_Witness ==
    /\ pc = "ParseProgram"
    /\ words = <<"a", "==", "1", ";">>
    /\ Len(result.declarations) = 1
    /\ result.declarations[1].type = NodeType.invalid
    /\ result.declarations[1].expression.type = NodeType.expression_binary_operator
    /\ result.declarations[1].expression.op = TokenType.equals

\* node is an expression that was parsed: a literal, an identifier or an operator.
IsExpression(node) ==
    node.type >= NodeType.expression_integer_literal /\ node.type <= NodeType.expression_cast

\* C21: a variable declaration 'name : type ;' parses with no diagnostic, the
\* error count unchanged and the value absent, and 'name : type = expr ;' with
\* the value present; a constant declaration 'const name : type ;' without
\* '= expr' is reported (a diagnostic, the error count raised), and
\* 'const name : type = expr ;' parses without error.
C21_InitializerOptionalForVariables ==
    pc = "returned" =>
        \A const_ \in BOOLEAN, name \in DeclaredNames, type \in DeclaredTypes,
           init \in Initializers :
            words = Declaration(const_, name, type, init) =>
                IF const_ /\ init = <<>>
                THEN result.error_count > 0 /\ Len(parser.log_) > 0
                ELSE /\ result.error_count = 0 /\ parser.log_ = <<>>
                     /\ Len(result.declarations) = 1
                     /\ result.declarations[1].identifier.identifier = Str(<<name>>)
                     /\ IF const_
                        THEN /\ result.declarations[1].type = NodeType.declaration_const
                             /\ IsExpression(result.declarations[1].value)
                        ELSE /\ result.declarations[1].type = NodeType.declaration_variable
                             /\ result.declarations[1].value.has_value <=> (init # <<>>)
                             /\ init # <<>> =>
                                   IsExpression(result.declarations[1].value.value)
C21_Witness ==
    /\ pc = "returned"
    /\ words = Declaration(FALSE, "a", <<"*", "t">>, <<>>)
    /\ result.error_count = 0
    /\ Len(result.declarations) = 1
    /\ ~result.declarations[1].value.has_value
    /\ result.declarations[1].variable_type.type = NodeType.type_pointer

\* The kind of node a block item is parsed to.
BlockItemType(item) ==
    CASE item[1] = "a" -> NodeType.statement_assingment
      [] item[1] = "b" -> NodeType.declaration_variable
      [] item[1] = "return" -> NodeType.statement_return
      [] item[1] = "{" -> NodeType.statement_block

\* The PushArray calls made for the blocks nested in items: one of count 0 each.
RECURSIVE NestedPushes(_)
NestedPushes(items) ==
    IF items = <<>> THEN <<>>
    ELSE (IF Head(items)[1] = "{" THEN <<0>> ELSE <<>>) \o NestedPushes(Tail(items))

\* C22: the body of a block has exactly as many elements as statements and
\* declarations were parsed between '{' and the matching '}', in source order;
\* the array is pushed once, after the loop has ended, with the final count;
\* '{ }' gives a body of length 0.
C22_BlockBodyInOrder ==
    pc = "returned" =>
        \A items \in BlockBodies :
            words = Block(items) =>
                /\ Len(result.declarations) = 1
                /\ Len(result.declarations[1].body) = Len(items)
                /\ \A i \in 1..Len(items) :
                      result.declarations[1].body[i].type = BlockItemType(items[i])
                /\ parser.arena_ = NestedPushes(items) \o <<Len(items)>>
C22_Witness ==
    /\ pc = "returned"
    /\ words = Block(<<<<"return", ";">>, <<"a", "=", "1", ";">>>>)
    /\ Len(result.declarations[1].body) = 2
    /\ result.declarations[1].body[1].type = NodeType.statement_return
    /\ result.declarations[1].body[2].type = NodeType.statement_assingment
    /\ parser.arena_ = <<2>>

UnaryOp(u, right) ==
    [type |-> NodeType.expression_unary_operator, op |-> Ord(u), right |-> right]

\* The initializer of the one declaration parsed, without the places of its tokens.
Initializer == Shape(result.declarations[1].value.value)

\* C23: a prefix operator binds tighter than every binary operator: 'u a op b'
\* parses to BinaryOp(op, UnaryOp(u, a), b), never to UnaryOp(u, BinaryOp(op,
\* a, b)), and 'u u a' to UnaryOp(u, UnaryOp(u, a)).
C23_PrefixBindsTightest ==
    pc = "returned" =>
        /\ \A u \in PrefixOps, x \in Leaves, op \in BinaryOps, y \in Leaves :
              words = PrefixBinaryProgram(u, x, op, y) =>
                  /\ result.error_count = 0 /\ Len(result.declarations) = 1
                  /\ Initializer = BinaryOp(op, UnaryOp(u, Operand(x)), Operand(y))
        /\ \A u1 \in PrefixOps, u2 \in PrefixOps, x \in Leaves :
              words = PrefixPrefixProgram(u1, u2, x) =>
                  /\ result.error_count = 0 /\ Len(result.declarations) = 1
                  /\ Initializer = UnaryOp(u1, UnaryOp(u2, Operand(x)))
C23_Witness ==
    /\ pc = "returned"
    /\ words = PrefixBinaryProgram("-", "b", "*", "1")
    /\ Initializer = BinaryOp("*", UnaryOp("-", Operand("b")), Operand("1"))

C29_CursorWithinBuffer ==
    pc \in {"ParseProgram", "returned"} =>
        /\ parser.lexer_.tokens_cursor_ >= 0
        /\ parser.lexer_.tokens_cursor_ <= Len(parser.lexer_.tokens_)

\* After a declaration whose last token was eaten and none was scanned behind it.
C29_Witness ==
    /\ pc = "ParseProgram"
    /\ Len(result.declarations) = 1
    /\ parser.lexer_.tokens_cursor_ = Len(parser.lexer_.tokens_)
    /\ parser.lexer_.tokens_cursor_ = 4

(***************************************************************************)
(* Parser::ExpectToken called on a parser in front of a text.              *)
(***************************************************************************)
ExpectedTypes == {Ord(";"), Ord(":"), Ord("="), TokenType.identifier}

InitExpect ==
    /\ words \in WordTexts(MaxWords)
    /\ parser = Parser(Source(words))
    /\ result = NoResult
    /\ pc = "ExpectToken"
    /\ lexer = Lexer(<<>>)
    /\ ret = NoRef
    /\ panic = "none"
    /\ arena = NoArena

DoExpectToken(type) ==
    /\ pc = "ExpectToken"
    /\ \E r \in {ExpectToken(parser, type)} :
          /\ parser' = r.p
          /\ ret' = [index |-> parser.lexer_.tokens_cursor_, token |-> r.token]
    /\ pc' = "expected"
    /\ UNCHANGED <<lexer, panic, result, words, arena>>

NextExpect == \E type \in ExpectedTypes : DoExpectToken(type)

SpecExpect == InitExpect /\ [][NextExpect]_vars

\* The position of the first token at or after position index that is a ';'
\* or the end-of-input sentinel.
RECURSIVE NextSemicolon(_, _)
NextSemicolon(l, index) ==
    LET token == PeekToken(l, index - l.tokens_cursor_).ref.token
    IN  IF token.type = Ord(";") \/ token.type = TokenType.invalid
        THEN index
        ELSE NextSemicolon(l, index + 1)

\* C3: when the next token is not of the required kind, ExpectToken reports
\* one diagnostic and discards the tokens up to and including the next ';'
\* (up to the end-of-input sentinel if there is none), so that the cursor
\* ends right after that ';' (at or right after the sentinel).
C3_ExpectTokenResynchronizes ==
    [][\A type \in ExpectedTypes :
          (/\ pc = "ExpectToken"
           /\ parser' = ExpectToken(parser, type).p
           /\ Peek(parser).token.type # type)
              => LET l == parser.lexer_
                     stop == NextSemicolon(l, l.tokens_cursor_)
                     cursor == parser'.lexer_.tokens_cursor_
                 IN  /\ Len(parser'.log_) = Len(parser.log_) + 1
                     /\ IF PeekToken(l, stop - l.tokens_cursor_).ref.token.type = Ord(";")
                        THEN cursor = stop + 1
                        ELSE cursor \in {stop, stop + 1}]_vars

(***************************************************************************)
(* The parser that returns a validity flag (Code/Parser.cpp, Code/Parser.h)*)
(* in front of the same lexer.  Its names carry the suffix Flag where the  *)
(* parser above has a definition of the same name.  aborted_ records that  *)
(* an Assert of AssumeToken failed; the program stops there.               *)
(***************************************************************************)
NodeTypeFlag ==
    [invalid |-> 0,
     statement_variable_declaration |-> 1, statement_procedure_declaration |-> 2,
     statement_if |-> 3, statement_while |-> 4, statement_assingment |-> 5,
     statement_block |-> 6, statement_expression |-> 7,
     expression_integer_literal |-> 8, expression_true_literal |-> 9,
     expression_false_literal |-> 10, expression_identifier |-> 11,
     expression_unary_operator |-> 12, expression_binary_operator |-> 13,
     expression_cast |-> 14]

VariableDeclarationStatement ==
    [type |-> NodeTypeFlag.statement_variable_declaration, identifier |-> Token,
     type_identifier |-> Token, value |-> nullopt]
IfStatementFlag ==
    [type |-> NodeTypeFlag.statement_if, condition |-> nullptr, true_branch |-> nullptr,
     false_branch |-> nullopt]
WhileStatementFlag ==
    [type |-> NodeTypeFlag.statement_if, condition |-> nullptr, body |-> nullptr]
BlockStatementFlag == [type |-> NodeTypeFlag.statement_block, statements |-> <<>>]
AssignmentStatementFlag ==
    [type |-> NodeTypeFlag.statement_assingment, identifier |-> Token, value |-> nullptr]
ExpressionStatementFlag ==
    [type |-> NodeTypeFlag.statement_expression, expression |-> nullptr]

ParserFlag(input) ==
    [lexer_ |-> Lexer(input), arena_ |-> <<>>, expected_token_ |-> Token, log_ |-> <<>>,
     current_statement_invalid_ |-> FALSE, aborted_ |-> FALSE]

AssumeToken(p, type) ==
    Bind(Peek(p), LAMBDA k :
        [p |-> [Eat(k.p) EXCEPT !.aborted_ = @ \/ k.token.type # type],
         token |-> k.token])

RECURSIVE EatTokensUntilSemicolon(_)
EatTokensUntilSemicolon(p) ==
    Bind(Peek(p), LAMBDA k :
        IF k.token.type \in {Ord(";"), TokenType.invalid}
        THEN Eat(k.p)
        ELSE EatTokensUntilSemicolon(Eat(k.p)))

ExpectTokenFlag(p, type) ==
    Bind(Peek(p), LAMBDA k :
        IF k.token.type # type
        THEN [p |-> [EatTokensUntilSemicolon(
                         LogError(k.p, k.token, "Expected {}. Got {}.",
                                  <<type, k.token.type>>))
                        EXCEPT !.current_statement_invalid_ = TRUE],
              ok |-> FALSE]
        ELSE [p |-> [Eat(k.p) EXCEPT !.expected_token_ = k.token], ok |-> TRUE])

ParseExpressionFlag(p) ==
    Bind(ExpectTokenFlag(p, Ord(";")), LAMBDA e :
        [p |-> [e.p EXCEPT !.current_statement_invalid_ = TRUE],
         node |-> [type |-> NodeTypeFlag.invalid]])

ParseExpressionStatementFlag(p) ==
    Bind(ParseExpressionFlag(p), LAMBDA e :
        [p |-> e.p, node |-> [ExpressionStatementFlag EXCEPT !.expression = e.node]])

RECURSIVE ParseStatementFlag(_)
RECURSIVE ParseBlockLoopFlag(_, _)

ParseBlockLoopFlag(p, temp) ==
    Bind(LoopGoesOn(p, Ord("}")), LAMBDA c :
        IF ~c.is
        THEN [p |-> c.p, temp |-> temp]
        ELSE Bind(ParseStatementFlag(c.p), LAMBDA s_ :
                ParseBlockLoopFlag(s_.p, Append(temp, s_.node))))

ParseBlockStatementFlag(p) ==
    Bind(AssumeToken(p, Ord("{")), LAMBDA a :
    Bind(ParseBlockLoopFlag(a.p, <<>>), LAMBDA m :
        [p |-> ArenaPushArray(Eat(m.p), Len(m.temp)),
         node |-> [BlockStatementFlag EXCEPT !.statements = m.temp]]))

\* ParseIfStatement from the token after 'else'.
RECURSIVE ParseIfStatementFlag(_)
ParseElse(p, statement) ==
    Bind(NextTokenIs(p, TokenType.keyword_if), LAMBDA n :
        IF n.is
        THEN Bind(ParseIfStatementFlag(n.p), LAMBDA f :
                [p |-> f.p, node |-> [statement EXCEPT !.false_branch = Optional(f.node)]])
        ELSE Bind(ExpectTokenFlag(n.p, Ord("{")), LAMBDA e :
                IF ~e.ok
                THEN [p |-> e.p, node |-> statement]
                ELSE Bind(ParseBlockStatementFlag(e.p), LAMBDA f :
                        [p |-> f.p,
                         node |-> [statement EXCEPT !.false_branch = Optional(f.node)]])))

\* ParseIfStatement and ParseWhileStatement up to the block: the keyword,
\* '(', the condition, ')' and '{', which is given back to the lexer.
ParseCondition(p, keyword, statement) ==
    Bind(AssumeToken(p, keyword), LAMBDA a :
    Bind(ExpectTokenFlag(a.p, Ord("(")), LAMBDA e1 :
        IF ~e1.ok
        THEN [p |-> e1.p, node |-> statement, ok |-> FALSE]
        ELSE Bind(ParseExpressionFlag(e1.p), LAMBDA c :
             Bind(ExpectTokenFlag(c.p, Ord(")")), LAMBDA e2 :
                IF ~e2.ok
                THEN [p |-> e2.p, node |-> [statement EXCEPT !.condition = c.node],
                      ok |-> FALSE]
                ELSE Bind(ExpectTokenFlag(e2.p, Ord("{")), LAMBDA e3 :
                        [p |-> IF e3.ok THEN [e3.p EXCEPT !.lexer_ = UneatToken(@)]
                                        ELSE e3.p,
                         node |-> [statement EXCEPT !.condition = c.node],
                         ok |-> e3.ok])))))

ParseIfStatementFlag(p) ==
    Bind(ParseCondition(p, TokenType.keyword_if, IfStatementFlag), LAMBDA c :
        IF ~c.ok
        THEN [p |-> c.p, node |-> c.node]
        ELSE Bind(ParseBlockStatementFlag(c.p), LAMBDA t :
             Bind(NextTokenIs(t.p, TokenType.keyword_else), LAMBDA n :
                IF ~n.is
                THEN [p |-> n.p, node |-> [c.node EXCEPT !.true_branch = t.node]]
                ELSE ParseElse(Eat(n.p), [c.node EXCEPT !.true_branch = t.node]))))

ParseWhileStatementFlag(p) ==
    Bind(ParseCondition(p, TokenType.keyword_while, WhileStatementFlag), LAMBDA c :
        IF ~c.ok
        THEN [p |-> c.p, node |-> c.node]
        ELSE Bind(ParseBlockStatementFlag(c.p), LAMBDA b :
                [p |-> b.p, node |-> [c.node EXCEPT !.body = b.node]]))

ParseVariableDeclarationStatement(p) ==
    Bind(AssumeToken(p, TokenType.identifier), LAMBDA a1 :
    Bind(AssumeToken(a1.p, Ord(":")), LAMBDA a2 :
    Bind([VariableDeclarationStatement EXCEPT !.identifier = a1.token], LAMBDA s1 :
    Bind(ExpectTokenFlag(a2.p, TokenType.identifier), LAMBDA e1 :
        IF ~e1.ok
        THEN [p |-> e1.p, node |-> s1]
        ELSE Bind(NextTokenIs(e1.p, Ord("=")), LAMBDA n :
                IF n.is
                THEN Bind(ParseExpressionFlag(Eat(n.p)), LAMBDA v :
                        [p |-> ExpectTokenFlag(v.p, Ord(";")).p,
                         node |-> [s1 EXCEPT !.type_identifier = e1.p.expected_token_,
                                             !.value = Optional(v.node)]])
                ELSE [p |-> ExpectTokenFlag(n.p, Ord(";")).p,
                      node |-> [s1 EXCEPT !.type_identifier = e1.p.expected_token_]])))))

ParseAssignmentStatementFlag(p) ==
    Bind(AssumeToken(p, TokenType.identifier), LAMBDA a1 :
    Bind(AssumeToken(a1.p, Ord("=")), LAMBDA a2 :
    Bind(ParseExpressionFlag(a2.p), LAMBDA v :
        [p |-> ExpectTokenFlag(v.p, Ord(";")).p,
         node |-> [AssignmentStatementFlag EXCEPT !.identifier = a1.token,
                                                  !.value = v.node]])))

ParseStatementSwitchFlag(p, token_type, next_token_type) ==
    CASE token_type = TokenType.identifier /\ next_token_type = Ord(":") ->
            ParseVariableDeclarationStatement(p)
      [] token_type = TokenType.identifier /\ next_token_type = Ord("=") ->
            ParseAssignmentStatementFlag(p)
      [] token_type = TokenType.keyword_if -> ParseIfStatementFlag(p)
      [] token_type = TokenType.keyword_while -> ParseWhileStatementFlag(p)
      [] token_type = Ord("{") -> ParseBlockStatementFlag(p)
      [] OTHER -> ParseExpressionStatementFlag(p)

ParseStatementFlag(p) ==
    Bind(Peek(p), LAMBDA k :
        IF k.token.type = TokenType.identifier
        THEN Bind(PeekAhead(k.p, 1), LAMBDA k1 :
                ParseStatementSwitchFlag(k1.p, k.token.type, k1.token.type))
        ELSE ParseStatementSwitchFlag(k.p, k.token.type, TokenType.invalid))

\* Texts of statements of this parser; an expression is spelled ';'.
FlagStatements ==
    {<<"a", ":", "t", ";">>, <<"a", ":", "1", ";">>, <<"a", ":", "t", "=", ";", ";">>,
     <<"a", "=", ";", ";">>, <<";">>, <<"{", "}">>, <<"{", "a", ":", "t", ";", "}">>,
     <<"while", "(", ";", ")", "{", "}">>,
     <<"{", "while", "(", ";", ")", "{", "}", "}">>,
     <<"{", "{", "while", "(", ";", ")", "{", "a", ":", "t", ";", "}", "}", "}">>,
     <<"if", "(", ";", ")", "{", "}">>,
     <<"if", "(", ";", ")", "{", "}", "else", "if", "(", ";", ")", "{", "}">>,
     <<"if", "(", ";", ")", "{", "while", "(", ";", ")", "{", "}", "}">>,
     <<"if", "(", ";", ")", "{", "}", "else", "{", "}">>,
     <<"if", "(", ";", ")", "{", "}", "else", "{", "{", "}", "}">>}
FlagPrograms ==
    {Flatten(texts) : texts \in Lists(FlagStatements, MaxTopLevel) \cup {<<>>}}

\* The locals of ParseProgram and the result before the return.
ParseProgramLocals == [program |-> <<>>, invalid |-> FALSE]
ParseProgramResult == [program |-> <<>>, valid |-> FALSE]

InitFlag ==
    /\ words \in FlagPrograms
    /\ parser = ParserFlag(Source(words))
    /\ result = ParseProgramResult
    /\ ret = ParseProgramLocals
    /\ pc = "ParseProgram"
    /\ lexer = Lexer(<<>>)
    /\ panic = "none"
    /\ arena = NoArena

\* One pass through the body of the while loop; a failed Assert ends the
\* program.
ParseProgramIterationFlag ==
    /\ pc = "ParseProgram"
    /\ \E k \in {Peek(parser)} :
          /\ k.token.type # TokenType.invalid
          /\ \E s_ \in {ParseStatementFlag(k.p)} :
                IF s_.p.aborted_
                THEN /\ pc' = "aborted"
                     /\ panic' = "Assertion failed"
                     /\ UNCHANGED <<parser, ret>>
                ELSE /\ parser' = [s_.p EXCEPT !.current_statement_invalid_ = FALSE]
                     /\ ret' = [program |->
                                   Append(ret.program,
                                          IF s_.p.current_statement_invalid_
                                          THEN [s_.node EXCEPT !.type = NodeTypeFlag.invalid]
                                          ELSE s_.node),
                                invalid |-> ret.invalid \/ s_.p.current_statement_invalid_]
                     /\ UNCHANGED <<pc, panic>>
    /\ UNCHANGED <<lexer, result, words, arena>>

\* The pass that leaves the loop, and the return.
ParseProgramReturnFlag ==
    /\ pc = "ParseProgram"
    /\ \E k \in {Peek(parser)} :
          /\ k.token.type = TokenType.invalid
          /\ parser' = k.p
    /\ result' = [program |-> ret.program, valid |-> ret.invalid]
    /\ pc' = "returned"
    /\ UNCHANGED <<lexer, ret, panic, words, arena>>

NextFlag ==
    \/ ParseProgramIterationFlag
    \/ ParseProgramReturnFlag

SpecFlag == InitFlag /\ [][NextFlag]_vars

\* C25: the flag ParseProgram returns is true exactly when no top-level
\* statement was marked invalid during the parse, and false exactly when at
\* least one was.
C25_ValidIffNoStatementInvalid ==
    pc = "returned" =>
        (result.valid <=>
            \A i \in 1..Len(result.program) :
                result.program[i].type # NodeTypeFlag.invalid)

\* The flag is the opposite: true exactly when a statement was marked.
ValidIffSomeStatementInvalid ==
    pc = "returned" =>
        (result.valid <=>
            \E i \in 1..Len(result.program) :
                result.program[i].type = NodeTypeFlag.invalid)

\* The statements below a statement node.
RECURSIVE Below(_)
Below(node) ==
    CASE node = nullptr -> {}
      [] "statements" \in DOMAIN node ->
            UNION {{node.statements[i]} \cup Below(node.statements[i]) :
                   i \in 1..Len(node.statements)}
      [] "true_branch" \in DOMAIN node ->
            {node.true_branch} \cup Below(node.true_branch)
                \cup (IF node.false_branch.has_value
                      THEN {node.false_branch.value} \cup Below(node.false_branch.value)
                      ELSE {})
      [] "body" \in DOMAIN node -> {node.body} \cup Below(node.body)
      [] OTHER -> {}

\* The nodes ParseWhileStatement created below the top-level statements,
\* whose tag ParseProgram does not touch.
WhileNodes ==
    {node \in UNION {Below(result.program[i]) : i \in 1..Len(result.program)} :
        node # nullptr /\ DOMAIN node = DOMAIN WhileStatementFlag}

\* C26: a node created by ParseWhileStatement carries the discriminant of
\* the While kind, which is distinct from the tag of an If node.
C26_WhileTaggedWhile ==
    pc = "returned" =>
        \A node \in WhileNodes :
            /\ node.type = NodeTypeFlag.statement_while
            /\ node.type # IfStatementFlag.type

\* Every such node carries the tag of an If node.
WhileTaggedIf ==
    pc = "returned" => \A node \in WhileNodes : node.type = NodeTypeFlag.statement_if

(***************************************************************************)
(* An arena driven directly by a caller.                                   *)
(***************************************************************************)
\* Addresses operator new[] may give the buffer.
BufferAddresses == {16, 48}
\* Requests: none, small ones around the capacity, and the largest there is.
Sizes == 0..(MaxCapacity + 1) \cup {PTRDIFF_MAX}
Alignments == {1, 2, 4, 8, allocation_default_alignment}
\* sizeof and alignof of the items pushed.
Items == {[size |-> 1, alignment |-> 1], [size |-> 4, alignment |-> 4],
          [size |-> 6, alignment |-> 2]}
Counts == 0..2
Overflows == {"wraps", "traps"}

NoAllocation == [pointer |-> NullPointer, size |-> 0]

InitArena ==
    /\ arena \in {Arena(size, data) : size \in 0..MaxCapacity, data \in BufferAddresses}
    /\ ret = NoAllocation
    /\ panic = "none"
    /\ pc = "arena"
    /\ lexer = Lexer(<<>>)
    /\ parser = NoParser
    /\ result = NoResult
    /\ words = <<>>

\* The offset lies in the buffer.  A run that left the buffer is followed no
\* further.
Intact(a) == 0 <= a.offset_ /\ a.offset_ <= a.size_

\* What a call of Alloc leaves behind, r being what Alloc gives for it.
Allocated(r, size) ==
    /\ arena' = r.a
    /\ ret' = [pointer |-> r.pointer, size |-> size]
    /\ panic' = IF r.outcome = "returned" THEN "none" ELSE r.outcome
    /\ UNCHANGED <<lexer, parser, result, pc, words>>

DoAlloc(size, alignment) ==
    /\ pc = "arena" /\ panic = "none" /\ Intact(arena)
    /\ \E overflow \in Overflows :
          \E r \in {Alloc(arena, size, alignment, overflow)} : Allocated(r, size)

DoPushItem(item) ==
    /\ pc = "arena" /\ panic = "none" /\ Intact(arena)
    /\ \E overflow \in Overflows :
          \E r \in {PushItem(arena, item, overflow)} : Allocated(r, item.size)

DoPushArray(item, count) ==
    /\ pc = "arena" /\ panic = "none" /\ Intact(arena)
    /\ \E overflow \in Overflows :
          \E r \in {PushArray(arena, item, count, overflow)} :
              Allocated(r, item.size * count)

DoClear ==
    /\ pc = "arena" /\ panic = "none" /\ Intact(arena)
    /\ arena' = Clear(arena)
    /\ ret' = NoAllocation
    /\ UNCHANGED <<lexer, panic, parser, result, pc, words>>

NextArena ==
    \/ \E size \in Sizes, alignment \in Alignments : DoAlloc(size, alignment)
    \/ \E item \in Items : DoPushItem(item)
    \/ \E item \in Items, count \in Counts : DoPushArray(item, count)
    \/ DoClear

SpecArena == InitArena /\ [][NextArena]_vars

\* The offset a request of alignment is placed at.
MemOffset(a, alignment) == AlignForward(a.data_ + a.offset_, alignment) - a.data_

\* C16: after any sequence of Alloc, PushItem, PushArray and Clear, every
\* non-null pointer Alloc(size, alignment) returns designates a range
\* [mem_offset, mem_offset + size) inside [0, capacity) and 0 <= offset_ <=
\* capacity; a request that does not fit (aligned offset + size > capacity, any
\* size above the capacity included) ends in Panic("Arena is out of memory"),
\* returning no pointer and leaving offset_ as it was.
C16_ArenaBounds ==
    [][pc = "arena" =>
         /\ 0 <= arena'.offset_ /\ arena'.offset_ <= arena'.size_
         /\ ~ret'.pointer.null =>
               /\ 0 <= ret'.pointer.mem_offset
               /\ ret'.pointer.mem_offset + ret'.size <= arena'.size_
         /\ \A size \in Sizes, alignment \in Alignments :
               (DoAlloc(size, alignment) /\ size > 0
                    /\ MemOffset(arena, alignment) + size > arena.size_) =>
                   /\ panic' = "Arena is out of memory"
                   /\ ret'.pointer.null
                   /\ arena'.offset_ = arena.offset_]_vars

\* The same for requests far enough below the largest isize that the sum of
\* offset and size fits.
ArenaBoundsOfSmallRequests ==
    [][(pc = "arena" /\ ret'.size <= MaxCapacity + 1) =>
         /\ 0 <= arena'.offset_ /\ arena'.offset_ <= arena'.size_
         /\ ~ret'.pointer.null =>
               /\ 0 <= ret'.pointer.mem_offset
               /\ ret'.pointer.mem_offset + ret'.size <= arena'.size_
         /\ \A size \in Sizes \ {PTRDIFF_MAX}, alignment \in Alignments :
               (DoAlloc(size, alignment) /\ size > 0
                    /\ MemOffset(arena, alignment) + size > arena.size_) =>
                   /\ panic' = "Arena is out of memory"
                   /\ ret'.pointer.null
                   /\ arena'.offset_ = arena.offset_]_vars

\* The range handed out before a step, if any, ends at or before offset.
AfterPreviousRange(offset) ==
    ~ret.pointer.null => ret.pointer.mem_offset + ret.size <= offset

\* C24: between two Clear calls the allocations are handed out at increasing,
\* aligned, non-overlapping offsets: each Alloc(size > 0, alignment) that
\* returns a pointer returns an address that is a multiple of alignment, at the
\* smallest aligned offset not below the previous offset_, and sets offset_ to
\* that offset plus size, so the range lies after the one before it and
\* offset_ does not decrease; Alloc(0) returns null and leaves offset_ as it
\* is; Clear sets offset_ to 0.
C24_ArenaBumps ==
    [][pc = "arena" =>
         /\ \A size \in Sizes, alignment \in Alignments :
               DoAlloc(size, alignment) =>
                   IF size = 0
                   THEN ret'.pointer.null /\ arena'.offset_ = arena.offset_
                   ELSE ~ret'.pointer.null =>
                          /\ (arena.data_ + ret'.pointer.mem_offset) % alignment = 0
                          /\ ret'.pointer.mem_offset >= arena.offset_
                          /\ \A offset \in arena.offset_..(ret'.pointer.mem_offset - 1) :
                                (arena.data_ + offset) % alignment # 0
                          /\ arena'.offset_ = ret'.pointer.mem_offset + size
                          /\ arena'.offset_ >= arena.offset_
                          /\ AfterPreviousRange(ret'.pointer.mem_offset)
         /\ DoClear => arena'.offset_ = 0]_vars

\* The same for requests far enough below the largest isize that the sum of
\* offset and size fits.
ArenaBumpsOfSmallRequests ==
    [][pc = "arena" =>
         /\ \A size \in Sizes \ {PTRDIFF_MAX}, alignment \in Alignments :
               DoAlloc(size, alignment) =>
                   IF size = 0
                   THEN ret'.pointer.null /\ arena'.offset_ = arena.offset_
                   ELSE ~ret'.pointer.null =>
                          /\ (arena.data_ + ret'.pointer.mem_offset) % alignment = 0
                          /\ ret'.pointer.mem_offset >= arena.offset_
                          /\ \A offset \in arena.offset_..(ret'.pointer.mem_offset - 1) :
                                (arena.data_ + offset) % alignment # 0
                          /\ arena'.offset_ = ret'.pointer.mem_offset + size
                          /\ arena'.offset_ >= arena.offset_
                          /\ AfterPreviousRange(ret'.pointer.mem_offset)
         /\ DoClear => arena'.offset_ = 0]_vars

(***************************************************************************)
(* The lexer scanning a text token by token: PeekNextToken, then EatToken. *)
(***************************************************************************)
\* Texts of operator characters and ';'.
OperatorAlphabet == ExtensibleChars \cup {Ord(";")}
OperatorInputs == Texts(OperatorAlphabet, MaxInputLen)

\* Words: a keyword or a, with or without something before and up to MaxSuffix
\* characters after it, alone or followed by other tokens.
WordStems == {k.word : k \in keywords} \cup {Str(<<"a">>)}
WordPrefixes == {<<>>, Str(<<"_">>), Str(<<"A">>)}
WordSuffixes == Texts({Ord("f"), Ord("y"), Ord("_"), Ord("1")}, MaxSuffix)
WordTails == {<<>>, <<SPACE>> \o Str(<<"i", "f">>), Str(<<"(">>)}
WordInputs ==
    {prefix \o stem \o suffix \o tail :
        prefix \in WordPrefixes, stem \in WordStems, suffix \in WordSuffixes,
        tail \in WordTails}

ScanInputs == OperatorInputs \cup WordInputs

InitScan ==
    /\ lexer \in {Lexer(input) : input \in ScanInputs}
    /\ ret = NoRef
    /\ panic = "none"
    /\ arena = NoArena
    /\ parser = NoParser
    /\ result = NoResult
    /\ pc = "lexer"
    /\ words = <<>>

NextScan ==
    \/ DoPeekNextToken
    \/ DoEatToken

SpecScan == InitScan /\ [][NextScan]_vars

\* The character of input at position pos, counted from 1; EOF_CHAR past the end.
CharAt(input, pos) == IF pos <= Len(input) THEN input[pos] ELSE EOF_CHAR

\* The kind two characters make together, 0 when they make none.
TwoCharKind(ch, next) ==
    IF next = Ord("=")
    THEN CASE ch = Ord("=") -> TokenType.equals
           [] ch = Ord("!") -> TokenType.not_equals
           [] ch = Ord("+") -> TokenType.plus_assign
           [] ch = Ord("-") -> TokenType.minus_assign
           [] ch = Ord("*") -> TokenType.multiply_assign
           [] ch = Ord("/") -> TokenType.divide_assign
           [] ch = Ord("%") -> TokenType.modulo_assign
           [] ch = Ord("<") -> TokenType.less_equals
           [] ch = Ord(">") -> TokenType.greater_equals
           [] OTHER -> 0
    ELSE IF ch = Ord("-") /\ next = Ord(">") THEN TokenType.return_arrow
    ELSE 0

\* The operator tokens of a text of OperatorInputs read from position pos:
\* kind, first and last column.
RECURSIVE OperatorTokens(_, _)
OperatorTokens(input, pos) ==
    IF pos > Len(input) THEN <<>>
    ELSE IF TwoCharKind(input[pos], CharAt(input, pos + 1)) # 0
    THEN <<[type |-> TwoCharKind(input[pos], CharAt(input, pos + 1)),
            first |-> pos, last |-> pos + 1]>> \o OperatorTokens(input, pos + 2)
    ELSE <<[type |-> input[pos], first |-> pos, last |-> pos]>>
             \o OperatorTokens(input, pos + 1)

\* C17: compound operators are recognised with one character of lookahead:
\* = ! + - * / % < > followed at once by '=' give equals, not_equals,
\* plus_assign, minus_assign, multiply_assign, divide_assign, modulo_assign,
\* less_equals, greater_equals, and '-' followed by '>' gives return_arrow, two
\* characters consumed; otherwise the token has the character's own code as
\* kind and one character is consumed.
C17_CompoundOperators ==
    (pc = "lexer" /\ lexer.input_ \in OperatorInputs) =>
        \A i \in 1..Len(lexer.tokens_) :
            IF i <= Len(OperatorTokens(lexer.input_, 1))
            THEN /\ lexer.tokens_[i].type = OperatorTokens(lexer.input_, 1)[i].type
                 /\ lexer.tokens_[i].start = FileLocation(1, OperatorTokens(lexer.input_, 1)[i].first)
                 /\ lexer.tokens_[i].end = FileLocation(1, OperatorTokens(lexer.input_, 1)[i].last)
            ELSE lexer.tokens_[i].type = TokenType.invalid
C17_Witness ==
    /\ pc = "lexer"
    /\ lexer.input_ = Str(<<"=", "=", "=">>)
    /\ Len(lexer.tokens_) = 3
    /\ lexer.tokens_[1].type = TokenType.equals
    /\ lexer.tokens_[2].type = Ord("=")
    /\ lexer.tokens_[3].type = TokenType.invalid

\* A character a word is made of: a letter, a digit or '_'.
IsWordChar(ch) == IsAlpha(ch) \/ IsDigit(ch) \/ ch = Ord("_")

\* The longest run of word characters of input from position pos.
RECURSIVE MaximalRun(_, _)
MaximalRun(input, pos) ==
    IF pos <= Len(input) /\ IsWordChar(input[pos])
    THEN <<input[pos]>> \o MaximalRun(input, pos + 1)
    ELSE <<>>

KeywordTypes == {k.type : k \in keywords}

\* C18: keyword or identifier is decided on the whole maximal run of letters,
\* digits and '_' that starts at a letter or '_': the token is that whole run,
\* and its kind is a keyword's exactly when the run equals that keyword's entry
\* of the table, the identifier kind otherwise ('iffy' and 'while_1' are single
\* identifiers).
C18_KeywordOnWholeRun ==
    (pc = "lexer" /\ lexer.input_ \in WordInputs) =>
        /\ Len(lexer.tokens_) > 0 =>
              lexer.tokens_[1].type \in KeywordTypes \cup {TokenType.identifier}
        /\ \A i \in 1..Len(lexer.tokens_) :
              lexer.tokens_[i].type \in KeywordTypes \cup {TokenType.identifier} =>
                  /\ lexer.tokens_[i].start.column = 1
                        \/ ~IsWordChar(lexer.input_[lexer.tokens_[i].start.column - 1])
                  /\ lexer.tokens_[i].identifier =
                        MaximalRun(lexer.input_, lexer.tokens_[i].start.column)
                  /\ lexer.tokens_[i].end.column =
                        lexer.tokens_[i].start.column + Len(lexer.tokens_[i].identifier) - 1
                  /\ \A k \in keywords :
                        (lexer.tokens_[i].type = k.type)
                            <=> (lexer.tokens_[i].identifier = k.word)
C18_Witness ==
    /\ pc = "lexer"
    /\ lexer.input_ = Str(<<"w", "h", "i", "l", "e", "_", "1">>) \o <<SPACE>> \o Str(<<"i", "f">>)
    /\ Len(lexer.tokens_) = 2
    /\ lexer.tokens_[1].type = TokenType.identifier
    /\ lexer.tokens_[1].identifier = Str(<<"w", "h", "i", "l", "e", "_", "1">>)
    /\ lexer.tokens_[2].type = TokenType.keyword_if


\* The kinds TokenTypeToString has a case for.
ListedTypes ==
    {TokenType.plus_assign, TokenType.minus_assign, TokenType.multiply_assign,
     TokenType.divide_assign, TokenType.modulo_assign, TokenType.return_arrow,
     TokenType.less_equals, TokenType.identifier, TokenType.integer, TokenType.invalid,
     TokenType.keyword_if, TokenType.keyword_else, TokenType.keyword_while,
     TokenType.keyword_return, TokenType.keyword_proc, TokenType.keyword_const,
     TokenType.keyword_struct}

\* TokenTypeToString gives token its spelling in the lexer's tables: the word
\* of a keyword, the two characters of a compound operator, never "unknown",
\* and the empty string exactly for a character code.
SpelledBack(token) ==
    /\ token.type \in KeywordTypes => TokenTypeToString(token.type) = token.identifier
    /\ \A ch \in ExtensibleChars, next \in {Ord("="), Ord(">")} :
          CompoundType(ch, next) = token.type =>
              TokenTypeToString(token.type) = <<ch, next>>
    /\ TokenTypeToString(token.type) # Str(<<"u", "n", "k", "n", "o", "w", "n">>)
    /\ TokenTypeToString(token.type) = <<>> <=> token.type \in 1..255

\* C30: TokenTypeToString is the inverse of the lexer's spelling tables for
\* every kind that is no character: it maps the kind of each keyword of the
\* keyword table to its word and each compound operator kind to its two
\* characters, never returns "unknown" for a kind the lexer produces, and
\* returns the empty string exactly for the character codes 1..255.
C30_TokenTypeToStringInverts ==
    \A i \in 1..Len(lexer.tokens_) : SpelledBack(lexer.tokens_[i])

\* The same for the tokens whose kind TokenTypeToString has a case for, and
\* the single characters.
ListedKindsSpelledBack ==
    \A i \in 1..Len(lexer.tokens_) :
        lexer.tokens_[i].type \in ListedTypes \cup 1..255 => SpelledBack(lexer.tokens_[i])

\* Every token of a kind without a case is given "unknown".
UnlistedKindsUnknown ==
    \A i \in 1..Len(lexer.tokens_) :
        lexer.tokens_[i].type \notin ListedTypes \cup 1..255 =>
            TokenTypeToString(lexer.tokens_[i].type)
                = Str(<<"u", "n", "k", "n", "o", "w", "n">>)

====
